---- MODULE Spec2Model ----
(***************************************************************************)
(* Model of the todo-list core of pdmt: the TodoList data model            *)
(* (src/src/models/todo.rs), the TodoValidator                             *)
(* (src/src/validators/todo.rs) and the QualityGateValidator               *)
(* (src/src/quality/gates.rs).                                             *)
(*                                                                         *)
(* Representation choices                                                  *)
(*   - a String id is an opaque token; ids are modelled as naturals.       *)
(*   - a content String is a tuple of one-character strings (ASCII), so    *)
(*     that to_lowercase, trim, starts_with and contains are computed.     *)
(*   - Option<T> is a record [some, v]; None has some = FALSE.             *)
(*   - f32 hours are counted in half hours (0.5h = 1), ratios are kept as  *)
(*     exact fractions <<numerator, denominator>>.                         *)
(*   - a usize that wrapped below 0 is kept as its signed residue: -1     *)
(*     stands for usize::MAX, so "> 0" on a usize is "# 0" here.           *)
(*   - `before` is a history variable: todos and metadata at the entry of  *)
(*     the last call of add_todo or update_metadata, and whether the call  *)
(*     made just before it was update_metadata.                            *)
(*   - the iteration order of a HashMap / HashSet is not specified: every  *)
(*     place where the code iterates one takes the order as a parameter    *)
(*     that the actions choose with \E.                                    *)
(*   - the f64 values of the quality gates (coverage, thresholds) are      *)
(*     counted in halves (80.0 = 160, 8.5 = 17, -1.0 = -2).                *)
(*   - in the gate pipeline `before` holds the gate list at the entry of   *)
(*     the last call and the argument of that call.                        *)
(*   - `run` holds the locals of a call that is followed step by step      *)
(*     (calculate_todo_depth, the Kahn loop); it is None elsewhere.        *)
(***************************************************************************)
EXTENDS Integers, Sequences, FiniteSets, TLC

VARIABLES
  todos,     \* TodoList::todos
  metadata,  \* TodoList::metadata
  config,    \* TodoValidator::config
  op,        \* the operation called last
  result,    \* what it returned (None for an operation returning ())
  before,    \* the list as it was when the last &mut self call was entered
  gates,     \* QualityGateValidator::gates
  observed,  \* the QualityMetrics handed to the last call of validate
  run        \* the locals of a call that is followed step by step

vars == <<todos, metadata, config, op, result, before, gates, observed, run>>

(***************************************************************************)
(* Bounds of the model                                                     *)
(***************************************************************************)
\* longest list built in the dependency-graph specification
MaxGraph == 2
\* longest list built in the metadata specification
MaxList == 2
\* longest list built in the structure specification
MaxBatch == 3
\* most todos a list of the dependency-check specification holds
MaxDeps == 2
\* most todos a list of the quality specification holds
MaxQuality == 2
\* most separators of a content of the complexity specification, the two
\* counts around 2 * 256 aside
MaxSeparators == 3
\* most custom gates of a gate list
MaxCustom == 1
\* most todos of a list of the step-by-step specifications
MaxNodes == 2

(***************************************************************************)
(* Generic helpers                                                         *)
(***************************************************************************)
None == [some |-> FALSE, v |-> 0]

Some(x) == [some |-> TRUE, v |-> x]

Range(s) == {s[i] : i \in DOMAIN s}

Max2(a, b) == IF a >= b THEN a ELSE b

\* all orders in which a hash container holding the set S can be iterated
Orders(S) == {s \in [1..Cardinality(S) -> S] : Range(s) = S}

\* number of indices of s whose element satisfies s[i] = x
CountEq(s, x) == Cardinality({i \in DOMAIN s : s[i] = x})

(***************************************************************************)
(* TodoList::validate_dependencies  (models/todo.rs 443-523)               *)
(***************************************************************************)
\* keys of `graph` and `in_degree` after the "Initialize nodes" loop
NodeIds(ts) == {ts[i].id : i \in DOMAIN ts}

\* graph.insert(id, deps): a later todo with the same id replaces the entry
GraphOf(ts) ==
  [n \in NodeIds(ts) |->
     ts[CHOOSE i \in DOMAIN ts :
          /\ ts[i].id = n
          /\ \A j \in DOMAIN ts : ts[j].id = n => j <= i].dependencies]

\* "Calculate in-degrees": one increment per entry of every dependencies
\* vector whose id is a key of in_degree
RECURSIVE SumOver(_, _)
SumOver(f, S) ==
  IF S = {} THEN 0
  ELSE LET x == CHOOSE y \in S : TRUE IN f[x] + SumOver(f, S \ {x})

\* variant: an entry naming the task's own id is not counted
InDegreeOf_SkipSelf(ts) ==
  [n \in NodeIds(ts) |->
     SumOver([i \in DOMAIN ts |->
                IF ts[i].id = n THEN 0 ELSE CountEq(ts[i].dependencies, n)], DOMAIN ts)]

\* variant: an id that names no task gets a counter as well
InDegreeOf_CountMissing(ts) ==
  [n \in NodeIds(ts) \cup UNION {Range(ts[i].dependencies) : i \in DOMAIN ts} |->
     SumOver([i \in DOMAIN ts |-> CountEq(ts[i].dependencies, n)], DOMAIN ts)]

\* variant: an id repeated inside one dependencies vector is counted once
InDegreeOf_Distinct(ts) ==
  [n \in NodeIds(ts) |->
     SumOver([i \in DOMAIN ts |-> IF CountEq(ts[i].dependencies, n) > 0 THEN 1 ELSE 0],
             DOMAIN ts)]

InDegreeOf(ts) ==
  [n \in NodeIds(ts) |->
     SumOver([i \in DOMAIN ts |-> CountEq(ts[i].dependencies, n)], DOMAIN ts)]

\* the ids the queue is collected from (in_degree entries equal to 0)
ZeroDegree(ts) == LET in_degree == InDegreeOf(ts) IN {n \in DOMAIN in_degree : in_degree[n] = 0}

\* inner loop "for neighbor in neighbors" of the Kahn loop, from index i on.
\* k = [in_degree, queue, processed, underflow, dequeued]
RECURSIVE RelaxNeighbors(_, _, _)
RelaxNeighbors(k, neighbors, i) ==
  IF i > Len(neighbors) THEN k
  ELSE LET nb == neighbors[i] IN
       IF nb \in DOMAIN k.in_degree
       THEN LET d  == k.in_degree[nb]
                \* `*degree -= 1` on usize: wraps in a release build (and
                \* panics in a debug build); `underflow` records that case
                nd == d - 1
                k2 == [k EXCEPT !.in_degree = [@ EXCEPT ![nb] = nd],
                                !.underflow = @ \/ d = 0,
                                !.queue     = IF nd = 0 THEN Append(@, nb) ELSE @]
            IN RelaxNeighbors(k2, neighbors, i + 1)
       ELSE RelaxNeighbors(k, neighbors, i + 1)

\* `while let Some(current) = queue.pop_front()`
RECURSIVE KahnLoop(_, _)
KahnLoop(k, graph) ==
  IF k.queue = <<>> THEN k
  ELSE LET current == Head(k.queue)
           k1 == [k EXCEPT !.queue     = Tail(@),
                           !.processed = @ + 1,
                           !.dequeued  = Append(@, current)]
           k2 == IF current \in DOMAIN graph
                 THEN RelaxNeighbors(k1, graph[current], 1)
                 ELSE k1
       IN KahnLoop(k2, graph)

\* state of the Kahn loop at its exit; qorder is the order in which the
\* in_degree map yields its zero entries
Kahn(ts, qorder) ==
  KahnLoop([in_degree |-> InDegreeOf(ts),
            queue     |-> qorder,
            processed |-> 0,
            underflow |-> FALSE,
            dequeued  |-> <<>>],
           GraphOf(ts))

\* `remaining`: ids whose in-degree is still positive (a usize: not 0)
Remaining(k) == {n \in DOMAIN k.in_degree : k.in_degree[n] # 0}

\* deps.iter().find(|dep| remaining.contains(dep)): index of the first match
FirstIn(deps, S) ==
  IF \E i \in DOMAIN deps : deps[i] \in S
  THEN Some(deps[CHOOSE i \in DOMAIN deps :
                   /\ deps[i] \in S
                   /\ \A j \in DOMAIN deps : deps[j] \in S => i <= j])
  ELSE None

\* `while !visited.contains(&current)`: the walk that fills `cycle`
RECURSIVE CycleWalk(_, _, _, _, _)
CycleWalk(current, visited, cycle, graph, remaining) ==
  IF current \in visited THEN cycle
  ELSE LET cycle2 == Append(cycle, current) IN
       IF current \in DOMAIN graph
       THEN LET next == FirstIn(graph[current], remaining) IN
            IF next.some
            THEN CycleWalk(next.v, visited \cup {current}, cycle2, graph, remaining)
            ELSE cycle2
       ELSE cycle2

\* the start nodes `remaining.iter().next()` can yield; None for an empty set
StartChoices(k) ==
  IF Remaining(k) = {} THEN {None} ELSE {Some(n) : n \in Remaining(k)}

\* variant: processed is compared with the number of distinct ids
validate_dependencies_DistinctIds(ts, qorder, start) ==
  LET k == Kahn(ts, qorder) IN
  IF k.processed # Cardinality(NodeIds(ts))
  THEN [ok |-> FALSE,
        cycle |-> IF start.some
                  THEN CycleWalk(start.v, {}, <<>>, GraphOf(ts), Remaining(k))
                  ELSE <<>>,
        kahn |-> k]
  ELSE [ok |-> TRUE, cycle |-> <<>>, kahn |-> k]

\* Result<(), Vec<String>> of validate_dependencies for one iteration order
\* of in_degree (qorder) and one first element of `remaining` (start)
validate_dependencies(ts, qorder, start) ==
  LET k == Kahn(ts, qorder) IN
  IF k.processed # Len(ts)
  THEN [ok |-> FALSE,
        cycle |-> IF start.some
                  THEN CycleWalk(start.v, {}, <<>>, GraphOf(ts), Remaining(k))
                  ELSE <<>>,
        kahn |-> k]
  ELSE [ok |-> TRUE, cycle |-> <<>>, kahn |-> k]

(***************************************************************************)
(* TodoList: new, add_todo, update_metadata  (models/todo.rs 366-440)      *)
(***************************************************************************)
RECURSIVE Gcd(_, _)
Gcd(a, b) == IF b = 0 THEN a ELSE Gcd(b, a % b)

\* the value of n / d, as a fraction in lowest terms
Ratio(n, d) == LET g == Gcd(n, d) IN IF g = 0 THEN <<0, 1>> ELSE <<n \div g, d \div g>>

\* the instants chrono::Utc::now() may return
Instants == {"T0", "T1"}

\* filter_map(|t| t.estimated_hours).sum(), in list order
RECURSIVE SumHours(_, _)
SumHours(ts, i) ==
  IF i > Len(ts) THEN 0
  ELSE (IF ts[i].estimated_hours.some THEN ts[i].estimated_hours.v ELSE 0)
       + SumHours(ts, i + 1)

\* *counts.entry(key).or_insert(0) += 1 over the list: only keys that occur
CountsBy(ts, field) ==
  [key \in {ts[i][field] : i \in DOMAIN ts} |->
     Cardinality({i \in DOMAIN ts : ts[i][field] = key})]

\* counts.get(key).unwrap_or(&0)
GetOr0(counts, key) == IF key \in DOMAIN counts THEN counts[key] ELSE 0

\* TodoListMetadata::default()
DefaultMetadata(now) ==
  [total_count            |-> 0,
   status_counts          |-> << >>,
   priority_counts        |-> << >>,
   total_estimated_hours  |-> 0,
   avg_estimated_hours    |-> <<0, 1>>,
   completion_percentage  |-> <<0, 1>>,
   dependency_graph_valid |-> TRUE,
   generated_at           |-> now,
   template_version       |-> "1.0.0"]

\* variant: the hours are added to the total the metadata already holds
update_metadata_internal_Accumulate(ts, check_cycles, qorder, start, now) ==
  [total_count            |-> Len(ts),
   status_counts          |-> CountsBy(ts, "status"),
   priority_counts        |-> CountsBy(ts, "priority"),
   total_estimated_hours  |-> metadata.total_estimated_hours + SumHours(ts, 1),
   avg_estimated_hours    |-> IF Len(ts) > 0
                              THEN Ratio(metadata.total_estimated_hours + SumHours(ts, 1), Len(ts))
                              ELSE <<0, 1>>,
   completion_percentage  |-> IF Len(ts) > 0
                              THEN Ratio(GetOr0(CountsBy(ts, "status"), "Completed"), Len(ts))
                              ELSE <<0, 1>>,
   dependency_graph_valid |-> IF check_cycles
                              THEN validate_dependencies(ts, qorder, start).ok
                              ELSE TRUE,
   generated_at           |-> now,
   template_version       |-> "1.0.0"]

\* the metadata update_metadata_internal(check_cycles) stores
update_metadata_internal(ts, check_cycles, qorder, start, now) ==
  LET total_count   == Len(ts)
      status_counts == CountsBy(ts, "status")
      total_hours   == SumHours(ts, 1)
  IN [total_count            |-> total_count,
      status_counts          |-> status_counts,
      priority_counts        |-> CountsBy(ts, "priority"),
      total_estimated_hours  |-> total_hours,
      avg_estimated_hours    |-> IF total_count > 0
                                 THEN Ratio(total_hours, total_count)
                                 ELSE <<0, 1>>,
      completion_percentage  |-> IF total_count > 0
                                 THEN Ratio(GetOr0(status_counts, "Completed"), total_count)
                                 ELSE <<0, 1>>,
      dependency_graph_valid |-> IF check_cycles
                                 THEN validate_dependencies(ts, qorder, start).ok
                                 ELSE TRUE,
      generated_at           |-> now,
      template_version       |-> "1.0.0"]

\* the iteration orders one run of validate_dependencies may meet
QueueOrders(ts) == Orders(ZeroDegree(ts))

\* the list at the entry of a &mut self call
Snapshot ==
  [todos |-> todos, metadata |-> metadata, after_update |-> op = "update_metadata"]

\* variant: add_todo runs the cycle check
add_todo_CheckCycles(todo, instants) ==
  /\ todos' = Append(todos, todo)
  /\ before' = Snapshot
  /\ \E now \in instants, qorder \in QueueOrders(todos') :
       \E start \in StartChoices(Kahn(todos', qorder)) :
         metadata' = update_metadata_internal(todos', TRUE, qorder, start, now)
  /\ op' = "add_todo"
  /\ result' = None
  /\ UNCHANGED <<config, gates, observed, run>>

\* TodoList::add_todo; instants: what the clock may read during the call
add_todo(todo, instants) ==
  /\ todos' = Append(todos, todo)
  /\ before' = Snapshot
  /\ \E now \in instants :
       metadata' = update_metadata_internal(todos', FALSE, <<>>, None, now)
  /\ op' = "add_todo"
  /\ result' = None
  /\ UNCHANGED <<config, gates, observed, run>>

\* variant: update_metadata skips the cycle check
update_metadata_NoCheck ==
  /\ \E now \in Instants :
       metadata' = update_metadata_internal(todos, FALSE, <<>>, None, now)
  /\ before' = Snapshot
  /\ op' = "update_metadata"
  /\ result' = None
  /\ UNCHANGED <<todos, config, gates, observed, run>>

\* TodoList::update_metadata
update_metadata ==
  /\ \E now \in Instants, qorder \in QueueOrders(todos) :
       \E start \in StartChoices(Kahn(todos, qorder)) :
         metadata' = update_metadata_internal(todos, TRUE, qorder, start, now)
  /\ before' = Snapshot
  /\ op' = "update_metadata"
  /\ result' = None
  /\ UNCHANGED <<todos, config, gates, observed, run>>

\* TodoList::validate_dependencies, called on the current list
ValidateDependencies ==
  /\ \E qorder \in QueueOrders(todos) :
       \E start \in StartChoices(Kahn(todos, qorder)) :
         result' = validate_dependencies(todos, qorder, start)
  /\ op' = "validate_dependencies"
  /\ UNCHANGED <<todos, metadata, config, before, gates, observed, run>>

(***************************************************************************)
(* Strings: a String is a tuple of one-character strings                   *)
(***************************************************************************)
UpperCase ==
  <<"A", "B", "C", "D", "E", "F", "G", "H", "I", "J", "K", "L", "M", "N", "O", "P", "Q", "R", "S", "T", "U", "V", "W", "X", "Y", "Z">>

LowerCase ==
  <<"a", "b", "c", "d", "e", "f", "g", "h", "i", "j", "k", "l", "m", "n", "o", "p", "q", "r", "s", "t", "u", "v", "w", "x", "y", "z">>

\* the lower-case letter of every upper-case ASCII letter
LowerOf ==
  [c \in Range(UpperCase) |-> LowerCase[CHOOSE i \in DOMAIN UpperCase : UpperCase[i] = c]]

\* char::to_lowercase on an ASCII character
LowerChar(c) == IF c \in DOMAIN LowerOf THEN LowerOf[c] ELSE c

\* str::to_lowercase
to_lowercase(str) == [i \in DOMAIN str |-> LowerChar(str[i])]

\* the ASCII characters char::is_whitespace accepts
WhiteSpace == {" ", "\t", "\n", "\r"}

\* str::trim: drop leading and trailing whitespace
trim(str) ==
  LET keep == {i \in DOMAIN str : str[i] \notin WhiteSpace} IN
  IF keep = {} THEN <<>>
  ELSE LET lo == CHOOSE i \in keep : \A j \in keep : i <= j
           hi == CHOOSE i \in keep : \A j \in keep : j <= i
       IN SubSeq(str, lo, hi)

\* does pat occur in str at index i
MatchAt(str, pat, i) ==
  /\ i >= 1
  /\ i + Len(pat) - 1 <= Len(str)
  /\ \A j \in DOMAIN pat : str[i + j - 1] = pat[j]

\* str::starts_with
starts_with(str, pat) == MatchAt(str, pat, 1)

\* str::contains
contains(str, pat) == \E i \in 1..(Len(str) + 1) : MatchAt(str, pat, i)

\* the left-to-right scan of str.matches(pat) over the start positions
\* lo..hi, when the scan is free to match again from position free on: the
\* number of matches taken and the position from which it is free afterwards
\* (the range is halved, the left half scanned before the right one)
RECURSIVE MatchScan(_, _, _, _, _)
MatchScan(str, pat, lo, hi, free) ==
  IF lo > hi THEN [count |-> 0, free |-> free]
  ELSE IF lo = hi
       THEN IF lo >= free /\ MatchAt(str, pat, lo)
            THEN [count |-> 1, free |-> lo + Len(pat)]
            ELSE [count |-> 0, free |-> free]
       ELSE LET mid   == (lo + hi) \div 2
                left  == MatchScan(str, pat, lo, mid, free)
                right == MatchScan(str, pat, mid + 1, hi, left.free)
            IN [count |-> left.count + right.count, free |-> right.free]

\* str.matches(pat).count(): non-overlapping matches, scanned from index i
matches_count(str, pat, i) == MatchScan(str, pat, i, Len(str), i).count

(***************************************************************************)
(* Todo: is_actionable, has_valid_length, complexity_score                 *)
(* (models/todo.rs 268-345)                                                *)
(***************************************************************************)
actionable_verbs ==
  <<<<"i", "m", "p", "l", "e", "m", "e", "n", "t">>,
   <<"c", "r", "e", "a", "t", "e">>,
   <<"b", "u", "i", "l", "d">>,
   <<"w", "r", "i", "t", "e">>,
   <<"a", "d", "d">>,
   <<"r", "e", "m", "o", "v", "e">>,
   <<"u", "p", "d", "a", "t", "e">>,
   <<"f", "i", "x">>,
   <<"t", "e", "s", "t">>,
   <<"d", "e", "p", "l", "o", "y">>,
   <<"c", "o", "n", "f", "i", "g", "u", "r", "e">>,
   <<"s", "e", "t", "u", "p">>,
   <<"i", "n", "s", "t", "a", "l", "l">>,
   <<"d", "e", "s", "i", "g", "n">>,
   <<"d", "e", "v", "e", "l", "o", "p">>,
   <<"r", "e", "f", "a", "c", "t", "o", "r">>,
   <<"o", "p", "t", "i", "m", "i", "z", "e">>,
   <<"m", "i", "g", "r", "a", "t", "e">>,
   <<"i", "n", "t", "e", "g", "r", "a", "t", "e">>,
   <<"d", "e", "b", "u", "g">>,
   <<"a", "n", "a", "l", "y", "z", "e">>,
   <<"r", "e", "s", "e", "a", "r", "c", "h">>,
   <<"d", "o", "c", "u", "m", "e", "n", "t">>,
   <<"v", "a", "l", "i", "d", "a", "t", "e">>,
   <<"v", "e", "r", "i", "f", "y">>,
   <<"r", "e", "v", "i", "e", "w">>>>

complexity_words ==
  <<<<"i", "n", "t", "e", "g", "r", "a", "t", "e">>,
   <<"r", "e", "f", "a", "c", "t", "o", "r">>,
   <<"o", "p", "t", "i", "m", "i", "z", "e">>,
   <<"m", "i", "g", "r", "a", "t", "e">>,
   <<"a", "n", "a", "l", "y", "z", "e">>,
   <<"a", "l", "g", "o", "r", "i", "t", "h", "m">>,
   <<"p", "e", "r", "f", "o", "r", "m", "a", "n", "c", "e">>,
   <<"s", "e", "c", "u", "r", "i", "t", "y">>,
   <<"a", "r", "c", "h", "i", "t", "e", "c", "t", "u", "r", "e">>>>

technical_terms ==
  <<<<"d", "a", "t", "a", "b", "a", "s", "e">>,
   <<"a", "p", "i">>,
   <<"s", "y", "s", "t", "e", "m">>>>

generic_words ==
  <<<<"t", "h", "i", "n", "g">>,
   <<"s", "t", "u", "f", "f">>,
   <<"i", "t", "e", "m">>,
   <<"s", "o", "m", "e", "t", "h", "i", "n", "g">>,
   <<"f", "i", "x", " ", "i", "s", "s", "u", "e", "s">>,
   <<"h", "a", "n", "d", "l", "e">>>>

\* the content of the todos of the dependency-graph specification
GraphContent == <<"F", "i", "x", " ", "l", "o", "g", "i", "n", " ", "b", "u", "g">>

\* the contents of the todos of the structure specification: three spellings
\* of one task (the last one starts with a blank) and a short other task
StructContents ==
  {GraphContent,
   <<"F", "I", "X", " ", "L", "O", "G", "I", "N", " ", "B", "U", "G", " ">>,
   <<" ", "f", "i", "x", " ", "l", "o", "g", "i", "n", " ", "b", "u", "g">>,
   <<"A", "d", "d", " ", "t", "e", "s", "t", "s">>}

\* the contents of the todos of the quality specification: a plain task, one
\* starting with a blank, a short one, one of complexity 4, a vague one
QualityContents ==
  {GraphContent,
   <<" ", "f", "i", "x", " ", "l", "o", "g", "i", "n", " ", "b", "u", "g">>,
   <<"A", "d", "d", " ", "t", "e", "s", "t", "s">>,
   <<"O", "p", "t", "i", "m", "i", "z", "e", " ", "a", "p", "i", " ", "s", "e", "c", "u", "r", "i", "t", "y">>,
   <<"F", "i", "x", " ", "s", "t", "u", "f", "f", " ", "i", "n", " ", "l", "o", "g", "i", "n">>}

\* u8 arithmetic wraps at 256 in a release build
U8Modulus == 256

\* "Fix", then the first w complexity words, then " api" if t = 1, then the
\* separator ", " k times
RECURSIVE WordsUpTo(_)
WordsUpTo(w) == IF w = 0 THEN <<>> ELSE WordsUpTo(w - 1) \o <<" ">> \o complexity_words[w]

ComplexityContent(w, t, k) ==
  <<"F", "i", "x">> \o WordsUpTo(w)
     \o (IF t = 1 THEN <<" ", "a", "p", "i">> ELSE <<>>)
     \o [i \in 1..(2 * k) |-> IF i % 2 = 1 THEN "," ELSE " "]

\* the contents of the todos of the complexity specification: every number
\* of complexity words with a few separators, and none or all of the words
\* with so many separators that half their number reaches the range of a u8
ComplexityContents ==
  {ComplexityContent(w, t, k) :
     w \in 0..Len(complexity_words), t \in 0..1, k \in 0..MaxSeparators}
  \cup {ComplexityContent(w, t, k) :
          w \in {0, Len(complexity_words)}, t \in 0..1,
          k \in {2 * U8Modulus - 2, 2 * U8Modulus}}

\* every content string a specification of this module hands to a todo
Contents == {GraphContent} \cup StructContents \cup QualityContents \cup ComplexityContents


\* Todo::is_actionable, on the content
IsActionableContent(str) ==
  LET lower_content == to_lowercase(str) IN
  \E v \in DOMAIN actionable_verbs : starts_with(lower_content, actionable_verbs[v])

\* Todo::has_valid_length (content.len() is the byte length; ASCII here)
has_valid_length(todo, min_chars, max_chars) ==
  LET len == Len(todo.content) IN len >= min_chars /\ len <= max_chars

\* content.matches(" and ").count() + content.matches(", ").count()
action_count(content) ==
  matches_count(content, <<" ", "a", "n", "d", " ">>, 1) + matches_count(content, <<",", " ">>, 1)

\* the score complexity_score reaches for given numbers of complexity words,
\* technical terms (0 or 1) and separators; `as u8` truncates and `+=` on a
\* u8 wraps in a release build
complexity_of(nwords, ntech, nactions) ==
  LET score == 1 + nwords + ntech
      added == (nactions \div 2) % U8Modulus
      total == (score + added) % U8Modulus
  IN IF total < 10 THEN total ELSE 10

\* whether `score += (action_count / 2) as u8` leaves the range of a u8: the
\* addition panics in a build with overflow checks and wraps in one without
complexity_overflows(nwords, ntech, nactions) ==
  1 + nwords + ntech + ((nactions \div 2) % U8Modulus) >= U8Modulus

\* whether the addition of complexity_score overflows on the content
ComplexityOverflows(str) ==
  LET content == to_lowercase(str) IN
  complexity_overflows(
    Cardinality({w \in DOMAIN complexity_words : contains(content, complexity_words[w])}),
    IF \E w \in DOMAIN technical_terms : contains(content, technical_terms[w]) THEN 1 ELSE 0,
    action_count(content))

\* Todo::complexity_score, on the content
ComplexityOfContent(str) ==
  LET content == to_lowercase(str) IN
  complexity_of(
    Cardinality({w \in DOMAIN complexity_words : contains(content, complexity_words[w])}),
    IF \E w \in DOMAIN technical_terms : contains(content, technical_terms[w]) THEN 1 ELSE 0,
    action_count(content))

\* the first generic word the lower-cased content contains, if any: the
\* word at which the scan of validate_todo stops
FirstGeneric(lower_content) ==
  LET hits == {w \in DOMAIN generic_words : contains(lower_content, generic_words[w])} IN
  IF hits = {} THEN None
  ELSE Some(generic_words[CHOOSE w \in hits : \A x \in hits : w <= x])

\* what the string functions above give for each content string of the
\* model, computed once
ContentFacts ==
  [str \in Contents |->
     [actionable |-> IsActionableContent(str),
      complexity |-> ComplexityOfContent(str),
      overflows  |-> ComplexityOverflows(str),
      generic    |-> FirstGeneric(to_lowercase(str)),
      normalized |-> to_lowercase(trim(str))]]

\* Todo::is_actionable
is_actionable(todo) == ContentFacts[todo.content].actionable

\* Todo::complexity_score
complexity_score(todo) == ContentFacts[todo.content].complexity

\* what a call of Todo::complexity_score can end with: the value returned,
\* or, when the addition overflows, also a panic
complexity_score_outcomes(todo) ==
  {[panic |-> FALSE, v |-> complexity_score(todo)]}
  \cup (IF ContentFacts[todo.content].overflows THEN {[panic |-> TRUE, v |-> 0]} ELSE {})

(***************************************************************************)
(* TodoQualityConfig and ValidationIssue                                   *)
(***************************************************************************)
\* Option::unwrap_or
unwrap_or(opt, default) == IF opt.some THEN opt.v ELSE default

\* TodoQualityConfig::default(); hours in half hours
DefaultConfig ==
  [max_todos_per_batch           |-> Some(50),
   min_task_detail_chars         |-> Some(10),
   max_task_detail_chars         |-> Some(100),
   max_complexity_per_task       |-> Some(8),
   require_time_estimates        |-> TRUE,
   require_specific_actions      |-> TRUE,
   require_dependency_graph      |-> TRUE,
   prevent_circular_dependencies |-> TRUE,
   min_estimated_hours           |-> Some(1),
   max_estimated_hours           |-> Some(80)]

\* a ValidationIssue; the message is its format string with its arguments
Issue(severity, category, todo_id, message, suggestion) ==
  [severity |-> severity, category |-> category, todo_id |-> todo_id,
   message |-> message, suggestion |-> Some(suggestion)]

\* the sequence <<x>> if cond holds, the empty sequence otherwise
PushIf(cond, x) == IF cond THEN <<x>> ELSE <<>>

\* concatenation of the sequences f[1], ..., f[n]
RECURSIVE Flatten(_, _)
Flatten(f, i) == IF i > Len(f) THEN <<>> ELSE f[i] \o Flatten(f, i + 1)

(***************************************************************************)
(* TodoValidator::validate_todo  (validators/todo.rs 177-319)              *)
(***************************************************************************)
\* variant: the actionability check is made only when specific actions are
\* required
validate_todo_ActionsOptional(cfg, todo) ==
  LET min_chars  == unwrap_or(cfg.min_task_detail_chars, 10)
      max_chars  == unwrap_or(cfg.max_task_detail_chars, 100)
      complexity == complexity_score(todo)
      min_hours  == unwrap_or(cfg.min_estimated_hours, 1)
      max_hours  == unwrap_or(cfg.max_estimated_hours, 80)
      hours      == todo.estimated_hours
      generic    == ContentFacts[todo.content].generic
      id         == Some(todo.id)
  IN
     PushIf(cfg.require_specific_actions /\ ~is_actionable(todo),
            Issue("Error", "Actionability", id,
                  <<"Todo '{}' is not actionable - should start with action verb", todo.content>>,
                  "Start with verbs like 'implement', 'create', 'add', 'fix', etc."))
  \o PushIf(Len(todo.content) < min_chars,
            Issue("Warning", "Completeness", id,
                  <<"Todo content too short: {} chars (min {})", Len(todo.content), min_chars>>,
                  "Add more specific details about what needs to be done"))
  \o PushIf(Len(todo.content) > max_chars,
            Issue("Warning", "Completeness", id,
                  <<"Todo content too long: {} chars (max {})", Len(todo.content), max_chars>>,
                  "Break this into smaller, more focused tasks"))
  \o PushIf(cfg.max_complexity_per_task.some /\ complexity > cfg.max_complexity_per_task.v,
            Issue("Error", "Complexity", id,
                  <<"Todo complexity {} exceeds maximum {}", complexity, cfg.max_complexity_per_task.v>>,
                  "Break this complex task into simpler subtasks"))
  \o PushIf(cfg.require_time_estimates /\ ~hours.some,
            Issue("Error", "TimeEstimate", id,
                  <<"Todo missing time estimate">>,
                  "Add estimated_hours field with realistic time estimate"))
  \o PushIf(hours.some /\ hours.v < min_hours,
            Issue("Warning", "TimeEstimate", id,
                  <<"Time estimate {:.1}h seems too low (min {:.1}h)", hours.v, min_hours>>,
                  "Consider if this task really needs so little time"))
  \o PushIf(hours.some /\ hours.v > max_hours,
            Issue("Error", "TimeEstimate", id,
                  <<"Time estimate {:.1}h exceeds maximum {:.1}h", hours.v, max_hours>>,
                  "Break this large task into smaller chunks"))
  \o PushIf(cfg.require_specific_actions /\ generic.some,
            Issue("Warning", "Completeness", id,
                  <<"Todo contains generic language: '{}'", generic.v>>,
                  "Be more specific about what needs to be done"))

\* the issues validate_todo pushes for one todo, in push order
validate_todo(cfg, todo) ==
  LET min_chars  == unwrap_or(cfg.min_task_detail_chars, 10)
      max_chars  == unwrap_or(cfg.max_task_detail_chars, 100)
      complexity == complexity_score(todo)
      min_hours  == unwrap_or(cfg.min_estimated_hours, 1)
      max_hours  == unwrap_or(cfg.max_estimated_hours, 80)
      hours      == todo.estimated_hours
      generic    == ContentFacts[todo.content].generic
      id         == Some(todo.id)
  IN
     PushIf(~is_actionable(todo),
            Issue("Error", "Actionability", id,
                  <<"Todo '{}' is not actionable - should start with action verb", todo.content>>,
                  "Start with verbs like 'implement', 'create', 'add', 'fix', etc."))
  \o PushIf(Len(todo.content) < min_chars,
            Issue("Warning", "Completeness", id,
                  <<"Todo content too short: {} chars (min {})", Len(todo.content), min_chars>>,
                  "Add more specific details about what needs to be done"))
  \o PushIf(Len(todo.content) > max_chars,
            Issue("Warning", "Completeness", id,
                  <<"Todo content too long: {} chars (max {})", Len(todo.content), max_chars>>,
                  "Break this into smaller, more focused tasks"))
  \o PushIf(cfg.max_complexity_per_task.some /\ complexity > cfg.max_complexity_per_task.v,
            Issue("Error", "Complexity", id,
                  <<"Todo complexity {} exceeds maximum {}", complexity, cfg.max_complexity_per_task.v>>,
                  "Break this complex task into simpler subtasks"))
  \o PushIf(cfg.require_time_estimates /\ ~hours.some,
            Issue("Error", "TimeEstimate", id,
                  <<"Todo missing time estimate">>,
                  "Add estimated_hours field with realistic time estimate"))
  \o PushIf(hours.some /\ hours.v < min_hours,
            Issue("Warning", "TimeEstimate", id,
                  <<"Time estimate {:.1}h seems too low (min {:.1}h)", hours.v, min_hours>>,
                  "Consider if this task really needs so little time"))
  \o PushIf(hours.some /\ hours.v > max_hours,
            Issue("Error", "TimeEstimate", id,
                  <<"Time estimate {:.1}h exceeds maximum {:.1}h", hours.v, max_hours>>,
                  "Break this large task into smaller chunks"))
  \o PushIf(cfg.require_specific_actions /\ generic.some,
            Issue("Warning", "Completeness", id,
                  <<"Todo contains generic language: '{}'", generic.v>>,
                  "Be more specific about what needs to be done"))

(***************************************************************************)
(* TodoValidator::validate_structure  (validators/todo.rs 321-378)         *)
(***************************************************************************)
\* variant: only the todo just before is compared
SeenId_Adjacent(ts, i) == i > 1 /\ ts[i - 1].id = ts[i].id

\* seen_ids.insert(id) returns false: an earlier todo carries the same id
SeenId(ts, i) == \E j \in 1..(i - 1) : ts[j].id = ts[i].id

\* the normalized content of the i-th todo
Normalized(ts, i) == ContentFacts[ts[i].content].normalized

\* seen_content.insert(normalized, id) returns the value it replaces: the id
\* stored by the latest earlier todo with the same normalized content
SeenContent(ts, i) ==
  LET prev == {j \in 1..(i - 1) : Normalized(ts, j) = Normalized(ts, i)} IN
  IF prev = {} THEN None
  ELSE Some(ts[CHOOSE j \in prev : \A x \in prev : x <= j].id)

\* variant: a count equal to the maximum already exceeds it
validate_structure_AtLeast(cfg, ts) ==
  LET count == Len(ts) IN
     PushIf(cfg.max_todos_per_batch.some /\ count >= cfg.max_todos_per_batch.v,
            Issue("Error", "Structure", None,
                  <<"Todo count {} exceeds maximum {}", count, cfg.max_todos_per_batch.v>>,
                  "Split into multiple smaller todo lists"))
  \o PushIf(count = 0,
            Issue("Error", "Structure", None,
                  <<"Todo list is empty">>,
                  "Add at least one todo item"))
  \o Flatten([i \in DOMAIN ts |->
                PushIf(SeenId(ts, i),
                       Issue("Error", "Structure", Some(ts[i].id),
                             <<"Duplicate todo ID: {}", ts[i].id>>,
                             "Ensure all todo IDs are unique"))], 1)
  \o Flatten([i \in DOMAIN ts |->
                PushIf(SeenContent(ts, i).some,
                       Issue("Warning", "Structure", Some(ts[i].id),
                             <<"Duplicate todo content with ID: {}", SeenContent(ts, i).v>>,
                             "Make todo descriptions more specific to avoid duplicates"))], 1)

\* the issues validate_structure pushes, in push order
validate_structure(cfg, ts) ==
  LET count == Len(ts) IN
     PushIf(cfg.max_todos_per_batch.some /\ count > cfg.max_todos_per_batch.v,
            Issue("Error", "Structure", None,
                  <<"Todo count {} exceeds maximum {}", count, cfg.max_todos_per_batch.v>>,
                  "Split into multiple smaller todo lists"))
  \o PushIf(count = 0,
            Issue("Error", "Structure", None,
                  <<"Todo list is empty">>,
                  "Add at least one todo item"))
  \o Flatten([i \in DOMAIN ts |->
                PushIf(SeenId(ts, i),
                       Issue("Error", "Structure", Some(ts[i].id),
                             <<"Duplicate todo ID: {}", ts[i].id>>,
                             "Ensure all todo IDs are unique"))], 1)
  \o Flatten([i \in DOMAIN ts |->
                PushIf(SeenContent(ts, i).some,
                       Issue("Warning", "Structure", Some(ts[i].id),
                             <<"Duplicate todo content with ID: {}", SeenContent(ts, i).v>>,
                             "Make todo descriptions more specific to avoid duplicates"))], 1)

(***************************************************************************)
(* TodoValidator::validate_dependencies  (validators/todo.rs 381-432)      *)
(***************************************************************************)
\* variant: the cycle check runs whatever prevent_circular_dependencies is
validator_validate_dependencies_AlwaysCycles(cfg, ts, dep_result) ==
  IF ~cfg.require_dependency_graph THEN <<>>
  ELSE
     Flatten([i \in DOMAIN ts |->
        Flatten([d \in DOMAIN ts[i].dependencies |->
           PushIf(ts[i].dependencies[d] \notin NodeIds(ts),
                  Issue("Error", "Dependencies", Some(ts[i].id),
                        <<"Dependency '{}' not found", ts[i].dependencies[d]>>,
                        "Remove invalid dependency or add missing todo"))], 1)], 1)
  \o PushIf(~dep_result.ok,
            Issue("Error", "Dependencies", None,
                  <<"Circular dependency detected: {}", dep_result.cycle>>,
                  "Remove circular dependencies by reordering tasks"))
  \o Flatten([i \in DOMAIN ts |->
        PushIf(ts[i].id \in Range(ts[i].dependencies),
               Issue("Error", "Dependencies", Some(ts[i].id),
                     <<"Todo depends on itself">>,
                     "Remove self-dependency"))], 1)

\* variant: a missing dependency is reported once per todo and value, and
\* the self-dependency check belongs to the cycle check
validator_validate_dependencies_PerTodo(cfg, ts, dep_result) ==
  IF ~cfg.require_dependency_graph THEN <<>>
  ELSE
     Flatten([i \in DOMAIN ts |->
        Flatten([d \in DOMAIN ts[i].dependencies |->
           PushIf(/\ ts[i].dependencies[d] \notin NodeIds(ts)
                  /\ \A e \in 1..(d - 1) : ts[i].dependencies[e] # ts[i].dependencies[d],
                  Issue("Error", "Dependencies", Some(ts[i].id),
                        <<"Dependency '{}' not found", ts[i].dependencies[d]>>,
                        "Remove invalid dependency or add missing todo"))], 1)], 1)
  \o PushIf(cfg.prevent_circular_dependencies /\ ~dep_result.ok,
            Issue("Error", "Dependencies", None,
                  <<"Circular dependency detected: {}", dep_result.cycle>>,
                  "Remove circular dependencies by reordering tasks"))
  \o Flatten([i \in DOMAIN ts |->
        PushIf(cfg.prevent_circular_dependencies /\ ts[i].id \in Range(ts[i].dependencies),
               Issue("Error", "Dependencies", Some(ts[i].id),
                     <<"Todo depends on itself">>,
                     "Remove self-dependency"))], 1)

\* the issues the validator's validate_dependencies pushes; dep_result is
\* what todo_list.validate_dependencies() returned to it
validator_validate_dependencies(cfg, ts, dep_result) ==
  IF ~cfg.require_dependency_graph THEN <<>>
  ELSE
     Flatten([i \in DOMAIN ts |->
        Flatten([d \in DOMAIN ts[i].dependencies |->
           PushIf(ts[i].dependencies[d] \notin NodeIds(ts),
                  Issue("Error", "Dependencies", Some(ts[i].id),
                        <<"Dependency '{}' not found", ts[i].dependencies[d]>>,
                        "Remove invalid dependency or add missing todo"))], 1)], 1)
  \o PushIf(cfg.prevent_circular_dependencies /\ ~dep_result.ok,
            Issue("Error", "Dependencies", None,
                  <<"Circular dependency detected: {}", dep_result.cycle>>,
                  "Remove circular dependencies by reordering tasks"))
  \o Flatten([i \in DOMAIN ts |->
        PushIf(ts[i].id \in Range(ts[i].dependencies),
               Issue("Error", "Dependencies", Some(ts[i].id),
                     <<"Todo depends on itself">>,
                     "Remove self-dependency"))], 1)

(***************************************************************************)
(* Dependency depth  (validators/todo.rs 533-585)                          *)
(***************************************************************************)
\* cache.get(id)
CacheGet(cache, id) == IF id \in DOMAIN cache THEN Some(cache[id]) ELSE None

\* cache.insert(id, depth)
CacheInsert(cache, id, depth) ==
  [x \in DOMAIN cache \cup {id} |-> IF x = id THEN depth ELSE cache[x]]

\* todo_list.todos.iter().find(|t| t.id == todo_id): index of the first match
FindTodo(ts, todo_id) ==
  IF \E i \in DOMAIN ts : ts[i].id = todo_id
  THEN Some(CHOOSE i \in DOMAIN ts :
              /\ ts[i].id = todo_id
              /\ \A j \in DOMAIN ts : ts[j].id = todo_id => i <= j)
  ELSE None

RECURSIVE calculate_todo_depth(_, _, _)
RECURSIVE DepthOverDeps(_, _, _, _, _)

\* `for dep_id in &todo.dependencies` of calculate_todo_depth, from index i;
\* returns [depth |-> max_dep_depth, cache |-> cache]
DepthOverDeps(deps, i, max_dep_depth, ts, cache) ==
  IF i > Len(deps) THEN [depth |-> max_dep_depth, cache |-> cache]
  ELSE IF CacheGet(cache, deps[i]) = Some(0)
       THEN DepthOverDeps(deps, i + 1, max_dep_depth, ts, cache)
       ELSE LET r == calculate_todo_depth(deps[i], ts, cache) IN
            DepthOverDeps(deps, i + 1, Max2(max_dep_depth, r.depth), ts, r.cache)

\* TodoValidator::calculate_todo_depth; returns [depth, cache]
calculate_todo_depth(todo_id, ts, cache) ==
  IF CacheGet(cache, todo_id).some
  THEN [depth |-> cache[todo_id], cache |-> cache]
  ELSE LET c0   == CacheInsert(cache, todo_id, 0)
           todo == FindTodo(ts, todo_id)
       IN IF todo.some
          THEN IF ts[todo.v].dependencies = <<>>
               THEN [depth |-> 1, cache |-> CacheInsert(c0, todo_id, 1)]
               ELSE LET r     == DepthOverDeps(ts[todo.v].dependencies, 1, 0, ts, c0)
                        depth == r.depth + 1
                    IN [depth |-> depth, cache |-> CacheInsert(r.cache, todo_id, depth)]
          ELSE [depth |-> 0, cache |-> c0]

\* variant: keeps the depth of the latest todo instead of the maximum
RECURSIVE MaxDepthFrom_Last(_, _, _, _)
MaxDepthFrom_Last(ts, i, max_depth, cache) ==
  IF i > Len(ts) THEN max_depth
  ELSE LET r == calculate_todo_depth(ts[i].id, ts, cache) IN
       MaxDepthFrom_Last(ts, i + 1, r.depth, r.cache)

\* `for todo in &todo_list.todos` of calculate_max_dependency_depth, from i
RECURSIVE MaxDepthFrom(_, _, _, _)
MaxDepthFrom(ts, i, max_depth, cache) ==
  IF i > Len(ts) THEN max_depth
  ELSE LET r == calculate_todo_depth(ts[i].id, ts, cache) IN
       MaxDepthFrom(ts, i + 1, Max2(max_depth, r.depth), r.cache)

\* TodoValidator::calculate_max_dependency_depth
calculate_max_dependency_depth(ts) == MaxDepthFrom(ts, 1, 0, << >>)

(***************************************************************************)
(* Metrics, quality score, suggestions  (validators/todo.rs 435-672)       *)
(***************************************************************************)
\* variant: the depth is computed whether or not a cycle was reported
calculate_dependency_metrics_AlwaysDepth(ts, dep_result) ==
  LET with_deps  == {i \in DOMAIN ts : ts[i].dependencies # <<>>}
      depth      == calculate_max_dependency_depth(ts)
  IN [todos_with_dependencies |-> Cardinality(with_deps),
      total_dependencies      |-> SumOver([i \in DOMAIN ts |-> Len(ts[i].dependencies)], with_deps),
      max_depth               |-> depth,
      has_cycles              |-> ~dep_result.ok,
      critical_path_length    |-> depth]

\* TodoValidator::calculate_dependency_metrics; dep_result is what
\* todo_list.validate_dependencies() returned to it
calculate_dependency_metrics(ts, dep_result) ==
  LET with_deps  == {i \in DOMAIN ts : ts[i].dependencies # <<>>}
      has_cycles == ~dep_result.ok
      depth      == IF has_cycles THEN 0 ELSE calculate_max_dependency_depth(ts)
  IN [todos_with_dependencies |-> Cardinality(with_deps),
      total_dependencies      |-> SumOver([i \in DOMAIN ts |-> Len(ts[i].dependencies)], with_deps),
      max_depth               |-> depth,
      has_cycles              |-> has_cycles,
      critical_path_length    |-> depth]

\* variant: a task is reasonable up to complexity 8, whatever is configured
calculate_metrics_FixedLimit(cfg, ts, dep_result) ==
  LET total_count    == Len(ts)
      min_chars      == unwrap_or(cfg.min_task_detail_chars, 10)
      max_chars      == unwrap_or(cfg.max_task_detail_chars, 100)
      max_complexity == 8
  IN [total_count                 |-> total_count,
      actionable_count            |-> Cardinality({i \in DOMAIN ts : is_actionable(ts[i])}),
      proper_length_count         |->
        Cardinality({i \in DOMAIN ts : has_valid_length(ts[i], min_chars, max_chars)}),
      estimated_count             |-> Cardinality({i \in DOMAIN ts : ts[i].estimated_hours.some}),
      reasonable_complexity_count |->
        Cardinality({i \in DOMAIN ts : complexity_score(ts[i]) <= max_complexity}),
      avg_complexity              |->
        IF total_count > 0
        THEN Ratio(SumOver([i \in DOMAIN ts |-> complexity_score(ts[i])], DOMAIN ts), total_count)
        ELSE <<0, 1>>,
      avg_task_length             |->
        IF total_count > 0
        THEN Ratio(SumOver([i \in DOMAIN ts |-> Len(ts[i].content)], DOMAIN ts), total_count)
        ELSE <<0, 1>>,
      total_estimated_hours       |-> SumHours(ts, 1),
      dependency_metrics          |-> calculate_dependency_metrics(ts, dep_result)]

\* TodoValidator::calculate_metrics
calculate_metrics(cfg, ts, dep_result) ==
  LET total_count    == Len(ts)
      min_chars      == unwrap_or(cfg.min_task_detail_chars, 10)
      max_chars      == unwrap_or(cfg.max_task_detail_chars, 100)
      max_complexity == unwrap_or(cfg.max_complexity_per_task, 8)
  IN [total_count                 |-> total_count,
      actionable_count            |-> Cardinality({i \in DOMAIN ts : is_actionable(ts[i])}),
      proper_length_count         |->
        Cardinality({i \in DOMAIN ts : has_valid_length(ts[i], min_chars, max_chars)}),
      estimated_count             |-> Cardinality({i \in DOMAIN ts : ts[i].estimated_hours.some}),
      reasonable_complexity_count |->
        Cardinality({i \in DOMAIN ts : complexity_score(ts[i]) <= max_complexity}),
      avg_complexity              |->
        IF total_count > 0
        THEN Ratio(SumOver([i \in DOMAIN ts |-> complexity_score(ts[i])], DOMAIN ts), total_count)
        ELSE <<0, 1>>,
      avg_task_length             |->
        IF total_count > 0
        THEN Ratio(SumOver([i \in DOMAIN ts |-> Len(ts[i].content)], DOMAIN ts), total_count)
        ELSE <<0, 1>>,
      total_estimated_hours       |-> SumHours(ts, 1),
      dependency_metrics          |-> calculate_dependency_metrics(ts, dep_result)]

(***************************************************************************)
(* f32 arithmetic on non-negative values.  A value is [m, e] standing for   *)
(* m * 2^e with 2^23 <= m < 2^24, or F32Zero; every operation rounds its    *)
(* exact result to the nearest such value, ties to the even mantissa.        *)
(***************************************************************************)
\* number of bits of the significand of an f32
F32Bits == 24

F32Zero == [m |-> 0, e |-> 0]

F32One == [m |-> 2^(F32Bits - 1), e |-> 1 - F32Bits]

\* mant * 2^e plus a remainder rem out of unit (0 <= rem < unit), rounded
F32Round(mant, rem, unit, e) ==
  LET up == 2 * rem > unit \/ (2 * rem = unit /\ mant % 2 = 1)
      r  == IF up THEN mant + 1 ELSE mant
  IN IF r = 2^F32Bits THEN [m |-> 2^(F32Bits - 1), e |-> e + 1] ELSE [m |-> r, e |-> e]

\* the least k with n * 2^k >= d * 2^23
RECURSIVE F32Scale(_, _, _)
F32Scale(n, d, k) ==
  IF n * 2^k >= d * 2^(F32Bits - 1) THEN k ELSE F32Scale(n, d, k + 1)

\* the f32 nearest to n / d for small naturals 0 <= n <= d, d > 0: the value
\* of `n as f32 / d as f32`, and of the decimal literal n/d
F32Ratio(n, d) ==
  IF n = 0 THEN F32Zero
  ELSE LET k == F32Scale(n, d, 0)
           x == n * 2^k
       IN F32Round(x \div d, x % d, d, 0 - k)

\* a * b
F32Mul(a, b) ==
  IF a.m = 0 \/ b.m = 0 THEN F32Zero
  ELSE LET half == 2^(F32Bits \div 2)
           a1   == a.m \div half
           a0   == a.m % half
           b1   == b.m \div half
           b0   == b.m % half
           mid  == a0 * b1 + a1 * b0
           low  == (mid % half) * half + a0 * b0
           L    == low % 2^F32Bits
           H    == a1 * b1 + mid \div half + low \div 2^F32Bits
       IN IF H >= 2^(F32Bits - 1)
          THEN F32Round(H, L, 2^F32Bits, a.e + b.e + F32Bits)
          ELSE F32Round(2 * H + L \div 2^(F32Bits - 1), L % 2^(F32Bits - 1),
                        2^(F32Bits - 1), a.e + b.e + F32Bits - 1)

\* a + b; the smaller operand is shifted with three extra bits, the last of
\* them sticky
F32Add(a, b) ==
  IF a.m = 0 THEN b
  ELSE IF b.m = 0 THEN a
  ELSE LET hi == IF a.e >= b.e THEN a ELSE b
           lo == IF a.e >= b.e THEN b ELSE a
           d  == hi.e - lo.e
           y  == IF d > F32Bits + 3 THEN 1
                 ELSE LET q == (lo.m * 8) \div 2^d
                          r == (lo.m * 8) % 2^d
                      IN IF r # 0 /\ q % 2 = 0 THEN q + 1 ELSE q
           S  == hi.m * 8 + y
       IN IF S >= 2^(F32Bits + 3)
          THEN F32Round(S \div 16, S % 16, 16, hi.e + 1)
          ELSE F32Round(S \div 8, S % 8, 8, hi.e)

\* a < b
F32Lt(a, b) ==
  IF b.m = 0 THEN FALSE
  ELSE IF a.m = 0 THEN TRUE
  ELSE a.e < b.e \/ (a.e = b.e /\ a.m < b.m)

\* variant: the dependency term weighs 0.2
calculate_quality_score_HeavyDependency(cfg, metrics) ==
  IF metrics.total_count = 0 THEN F32Zero
  ELSE LET t == metrics.total_count
           actionability_score == F32Ratio(metrics.actionable_count, t)
           length_score        == F32Ratio(metrics.proper_length_count, t)
           complexity_score_   == F32Ratio(metrics.reasonable_complexity_count, t)
           estimate_score      == IF cfg.require_time_estimates
                                  THEN F32Ratio(metrics.estimated_count, t)
                                  ELSE F32One
           dependency_score    == IF metrics.dependency_metrics.has_cycles
                                  THEN F32Zero ELSE F32One
       IN F32Add(F32Add(F32Add(F32Add(F32Mul(actionability_score, F32Ratio(3, 10)),
                                      F32Mul(length_score, F32Ratio(2, 10))),
                               F32Mul(complexity_score_, F32Ratio(2, 10))),
                        F32Mul(estimate_score, F32Ratio(2, 10))),
                 F32Mul(dependency_score, F32Ratio(2, 10)))

\* TodoValidator::calculate_quality_score: the weighted sum in f32, summed
\* from left to right
calculate_quality_score(cfg, metrics) ==
  IF metrics.total_count = 0 THEN F32Zero
  ELSE LET t == metrics.total_count
           actionability_score == F32Ratio(metrics.actionable_count, t)
           length_score        == F32Ratio(metrics.proper_length_count, t)
           complexity_score_   == F32Ratio(metrics.reasonable_complexity_count, t)
           estimate_score      == IF cfg.require_time_estimates
                                  THEN F32Ratio(metrics.estimated_count, t)
                                  ELSE F32One
           dependency_score    == IF metrics.dependency_metrics.has_cycles
                                  THEN F32Zero ELSE F32One
       IN F32Add(F32Add(F32Add(F32Add(F32Mul(actionability_score, F32Ratio(3, 10)),
                                      F32Mul(length_score, F32Ratio(2, 10))),
                               F32Mul(complexity_score_, F32Ratio(2, 10))),
                        F32Mul(estimate_score, F32Ratio(2, 10))),
                 F32Mul(dependency_score, F32Ratio(1, 10)))

\* variant: the cycle suggestion is made only when cycles are prevented
generate_suggestions_CycleIfPrevented(cfg, issues, metrics) ==
  LET score == calculate_quality_score(cfg, metrics) IN
     PushIf(metrics.actionable_count < metrics.total_count,
            <<"Make {} todos more actionable by starting with action verbs (implement, create, add, etc.)",
              metrics.total_count - metrics.actionable_count>>)
  \o PushIf(metrics.reasonable_complexity_count < metrics.total_count,
            <<"Break down complex tasks (complexity > 8) into smaller, focused subtasks">>)
  \o PushIf(cfg.require_time_estimates /\ metrics.estimated_count < metrics.total_count,
            <<"Add time estimates to {} todos for better project planning",
              metrics.total_count - metrics.estimated_count>>)
  \o PushIf(cfg.prevent_circular_dependencies /\ metrics.dependency_metrics.has_cycles,
            <<"Remove circular dependencies to enable proper task ordering">>)
  \o PushIf(metrics.dependency_metrics.todos_with_dependencies = 0 /\ metrics.total_count > 1,
            <<"Consider adding dependencies between related tasks for better sequencing">>)
  \o PushIf(F32Lt(score, F32Ratio(8, 10)),
            <<"Overall todo list quality could be improved - focus on specific, actionable tasks with realistic estimates">>)

\* variant: missing estimates are suggested whether or not they are required
generate_suggestions_AlwaysEstimates(cfg, issues, metrics) ==
  LET score == calculate_quality_score(cfg, metrics) IN
     PushIf(metrics.actionable_count < metrics.total_count,
            <<"Make {} todos more actionable by starting with action verbs (implement, create, add, etc.)",
              metrics.total_count - metrics.actionable_count>>)
  \o PushIf(metrics.reasonable_complexity_count < metrics.total_count,
            <<"Break down complex tasks (complexity > 8) into smaller, focused subtasks">>)
  \o PushIf(metrics.estimated_count < metrics.total_count,
            <<"Add time estimates to {} todos for better project planning",
              metrics.total_count - metrics.estimated_count>>)
  \o PushIf(metrics.dependency_metrics.has_cycles,
            <<"Remove circular dependencies to enable proper task ordering">>)
  \o PushIf(metrics.dependency_metrics.todos_with_dependencies = 0 /\ metrics.total_count > 1,
            <<"Consider adding dependencies between related tasks for better sequencing">>)
  \o PushIf(F32Lt(score, F32Ratio(8, 10)),
            <<"Overall todo list quality could be improved - focus on specific, actionable tasks with realistic estimates">>)

\* TodoValidator::generate_suggestions (the issues argument is not read)
generate_suggestions(cfg, issues, metrics) ==
  LET score == calculate_quality_score(cfg, metrics) IN
     PushIf(metrics.actionable_count < metrics.total_count,
            <<"Make {} todos more actionable by starting with action verbs (implement, create, add, etc.)",
              metrics.total_count - metrics.actionable_count>>)
  \o PushIf(metrics.reasonable_complexity_count < metrics.total_count,
            <<"Break down complex tasks (complexity > 8) into smaller, focused subtasks">>)
  \o PushIf(cfg.require_time_estimates /\ metrics.estimated_count < metrics.total_count,
            <<"Add time estimates to {} todos for better project planning",
              metrics.total_count - metrics.estimated_count>>)
  \o PushIf(metrics.dependency_metrics.has_cycles,
            <<"Remove circular dependencies to enable proper task ordering">>)
  \o PushIf(metrics.dependency_metrics.todos_with_dependencies = 0 /\ metrics.total_count > 1,
            <<"Consider adding dependencies between related tasks for better sequencing">>)
  \o PushIf(F32Lt(score, F32Ratio(8, 10)),
            <<"Overall todo list quality could be improved - focus on specific, actionable tasks with realistic estimates">>)

(***************************************************************************)
(* TodoValidator::validate_todo_list  (validators/todo.rs 144-175)         *)
(***************************************************************************)
\* variant: any issue, of whatever severity, makes the list invalid
validate_todo_list_Strict(cfg, ts, dep1, dep2) ==
  LET issues  == validate_structure(cfg, ts)
                 \o Flatten([i \in DOMAIN ts |-> validate_todo(cfg, ts[i])], 1)
                 \o validator_validate_dependencies(cfg, ts, dep1)
      metrics == calculate_metrics(cfg, ts, dep2)
  IN [is_valid    |-> issues = <<>>,
      issues      |-> issues,
      metrics     |-> metrics,
      suggestions |-> generate_suggestions(cfg, issues, metrics)]

\* dep1 is the result of the call of todo_list.validate_dependencies() made
\* by the dependency check, dep2 the one made by the metrics
validate_todo_list(cfg, ts, dep1, dep2) ==
  LET issues  == validate_structure(cfg, ts)
                 \o Flatten([i \in DOMAIN ts |-> validate_todo(cfg, ts[i])], 1)
                 \o validator_validate_dependencies(cfg, ts, dep1)
      metrics == calculate_metrics(cfg, ts, dep2)
  IN [is_valid    |-> ~\E i \in DOMAIN issues : issues[i].severity = "Error",
      issues      |-> issues,
      metrics     |-> metrics,
      suggestions |-> generate_suggestions(cfg, issues, metrics)]

\* the Result values todo_list.validate_dependencies() can return: Ok(()),
\* or Err(cycle) for each cycle walk the iteration orders allow
DepResults(ts) ==
  UNION {{[ok    |-> validate_dependencies(ts, qorder, start).ok,
           cycle |-> validate_dependencies(ts, qorder, start).cycle] :
             start \in StartChoices(Kahn(ts, qorder))} :
           qorder \in QueueOrders(ts)}

\* TodoValidator::validate_todo_list, called on the current list
ValidateTodoList ==
  /\ \E dep1, dep2 \in DepResults(todos) :
       result' = validate_todo_list(config, todos, dep1, dep2)
  /\ op' = "validate_todo_list"
  /\ UNCHANGED <<todos, metadata, config, before, gates, observed, run>>

(***************************************************************************)
(* Reference definitions the properties are stated with                    *)
(***************************************************************************)
DistinctIds(ts) == \A i, j \in DOMAIN ts : ts[i].id = ts[j].id => i = j

\* the dependency relation restricted to the tasks of the list:
\* <<a, b>> when a task with id a lists b, the id of a task of the list
DepEdges(ts) ==
  {<<ts[i].id, d>> : i \in DOMAIN ts, d \in NodeIds(ts)}
  \cap {e \in NodeIds(ts) \X NodeIds(ts) :
          \E i \in DOMAIN ts : ts[i].id = e[1] /\ e[2] \in Range(ts[i].dependencies)}

\* ids reachable from the set S along at least one edge of E
RECURSIVE ReachFrom(_, _, _)
ReachFrom(S, E, seen) ==
  LET next == {e[2] : e \in {x \in E : x[1] \in S}} \ seen IN
  IF next = {} THEN seen ELSE ReachFrom(next, E, seen \cup next)

\* the dependency graph has a cycle (a self-dependency is one)
HasCycle(ts) == \E n \in NodeIds(ts) : n \in ReachFrom({n}, DepEdges(ts), {})

\* every dependency names a task of the list
NoDangling(ts) == \A i \in DOMAIN ts : Range(ts[i].dependencies) \subseteq NodeIds(ts)

(***************************************************************************)
(* Specification of the dependency graph operations                        *)
(***************************************************************************)
\* the ids a dependencies vector may name in the graph specification: the
\* ids the tasks get, and one id that no task of the list ever carries
GraphDepIds == 1..(MaxGraph + 1)

\* the dependencies vectors the graph specification draws from
GraphDeps ==
  {<<>>} \cup {<<a>> : a \in GraphDepIds} \cup {<<a, b>> : a, b \in GraphDepIds}

\* Todo::new("Fix login bug") with a fresh id, then fields set by the caller
GraphTodo(id, deps) ==
  [id              |-> id,
   content         |-> GraphContent,
   status          |-> "Pending",
   priority        |-> "Medium",
   estimated_hours |-> Some(4),
   dependencies    |-> deps]

\* TodoList::new() and TodoValidator::new()
InitGraph ==
  /\ todos = <<>>
  /\ metadata = DefaultMetadata("T0")
  /\ config = DefaultConfig
  /\ op = "new"
  /\ result = None
  /\ before = [todos |-> <<>>, metadata |-> metadata, after_update |-> FALSE]
  /\ gates = <<>>
  /\ observed = None
  /\ run = None

AddGraphTodo ==
  /\ Len(todos) < MaxGraph
  /\ \E deps \in GraphDeps : add_todo(GraphTodo(Len(todos) + 1, deps), {"T0"})

NextGraph ==
  \/ AddGraphTodo
  \/ ValidateDependencies
  \/ ValidateTodoList

SpecGraph == InitGraph /\ [][NextGraph]_vars

(***************************************************************************)
(* Properties of the dependency graph operations                           *)
(***************************************************************************)
\* the dependencies of the task carrying id (ids pairwise distinct)
DepsOfId(ts, id) ==
  UNION {Range(ts[i].dependencies) : i \in {j \in DOMAIN ts : ts[j].id = id}}

\* path is a cycle of the dependency relation: each element after the first
\* is a dependency of the one before it, the first one of the last
IsCyclePath(ts, path) ==
  /\ path # <<>>
  /\ \A i \in 2..Len(path) : path[i] \in DepsOfId(ts, path[i - 1])
  /\ path[1] \in DepsOfId(ts, path[Len(path)])

\* depth(t) = 1 without dependencies, 1 + the largest depth of a dependency
\* otherwise (defined on acyclic lists without dangling dependencies)
RECURSIVE RefDepth(_, _)
RefDepth(ts, id) ==
  LET deps == DepsOfId(ts, id) IN
  IF deps = {} THEN 1
  ELSE LET d == CHOOSE x \in deps : \A y \in deps : RefDepth(ts, y) <= RefDepth(ts, x)
       IN 1 + RefDepth(ts, d)

\* the largest depth of a task of the list, 0 for the empty list
RefMaxDepth(ts) ==
  IF ts = <<>> THEN 0
  ELSE LET ids == NodeIds(ts)
           m   == CHOOSE x \in ids : \A y \in ids : RefDepth(ts, y) <= RefDepth(ts, x)
       IN RefDepth(ts, m)

\* C1: on a list whose ids are pairwise distinct, validate_dependencies
\* returns Ok exactly when the dependency graph over the tasks of the list
\* has no cycle (a self-dependency counts as a cycle).
C1_OkIffAcyclic ==
  (op = "validate_dependencies" /\ DistinctIds(todos))
    => (result.ok <=> ~HasCycle(todos))

\* C1 witness: Err was returned for a full list without self-dependency,
\* that is for a cycle through at least two tasks
C1_Witness ==
  /\ op = "validate_dependencies"
  /\ ~result.ok
  /\ Len(todos) = MaxGraph
  /\ DistinctIds(todos)
  /\ \A i \in DOMAIN todos : todos[i].id \notin Range(todos[i].dependencies)

\* C2: whenever validate_dependencies returns Err(path) on a list with
\* pairwise distinct ids, path is non-empty and is a cycle of the dependency
\* relation, for every start node and every order of the dependencies.
C2_ErrPathIsCycle ==
  (op = "validate_dependencies" /\ DistinctIds(todos) /\ ~result.ok)
    => IsCyclePath(todos, result.cycle)

ListProfiles ==
  {[status |-> "Pending",   priority |-> "Medium", estimated_hours |-> None],
   [status |-> "Completed", priority |-> "High",   estimated_hours |-> Some(3)],
   [status |-> "InProgress", priority |-> "Low",   estimated_hours |-> Some(1)]}

\* their ids: the caller sets them and may repeat one
ListIds == {1, 2}

\* their dependencies
ListDeps == {<<>>, <<1>>, <<2>>}

\* the todos handed to add_todo in the metadata specification
ListTodos ==
  {[id              |-> id,
    content         |-> GraphContent,
    status          |-> p.status,
    priority        |-> p.priority,
    estimated_hours |-> p.estimated_hours,
    dependencies    |-> deps] : id \in ListIds, deps \in ListDeps, p \in ListProfiles}

\* TodoList::new()
InitList ==
  /\ todos = <<>>
  /\ metadata \in {DefaultMetadata(now) : now \in Instants}
  /\ config = DefaultConfig
  /\ op = "new"
  /\ result = None
  /\ before = [todos |-> <<>>, metadata |-> metadata, after_update |-> FALSE]
  /\ gates = <<>>
  /\ observed = None
  /\ run = None

AddListTodo ==
  /\ Len(todos) < MaxList
  /\ \E todo \in ListTodos : add_todo(todo, Instants)

UpdateMetadata == update_metadata

NextList ==
  \/ AddListTodo
  \/ UpdateMetadata

SpecList == InitList /\ [][NextList]_vars

(***************************************************************************)
(* Properties of the metadata operations                                   *)
(***************************************************************************)
\* the metadata without its timestamp
SansTime(m) == [m EXCEPT !.generated_at = "T0"]

\* the count and hour fields of m are those a recomputation from ts gives
CountsRecomputed(m, ts) ==
  LET present(field) == {ts[i][field] : i \in DOMAIN ts}
      hours == SumOver([i \in DOMAIN ts |->
                          IF ts[i].estimated_hours.some THEN ts[i].estimated_hours.v ELSE 0],
                       DOMAIN ts)
      completed == Cardinality({i \in DOMAIN ts : ts[i].status = "Completed"})
  IN /\ m.total_count = Len(ts)
     /\ DOMAIN m.status_counts = present("status")
     /\ \A x \in present("status") :
          m.status_counts[x] = Cardinality({i \in DOMAIN ts : ts[i].status = x})
     /\ DOMAIN m.priority_counts = present("priority")
     /\ \A x \in present("priority") :
          m.priority_counts[x] = Cardinality({i \in DOMAIN ts : ts[i].priority = x})
     /\ m.total_estimated_hours = hours
     /\ IF ts = <<>>
        THEN m.avg_estimated_hours = <<0, 1>> /\ m.completion_percentage = <<0, 1>>
        ELSE /\ m.avg_estimated_hours[1] * Len(ts) = hours * m.avg_estimated_hours[2]
             /\ m.completion_percentage[1] * Len(ts) = completed * m.completion_percentage[2]

\* validate_dependencies returns Ok on ts, whatever the iteration orders
DependenciesOk(ts) == \A r \in DepResults(ts) : r.ok

\* C5: after any sequence of add_todo and update_metadata calls every
\* derived metadata field, the dependency-graph validity flag included,
\* equals what a recomputation from the current todos gives.
C5_MetadataRecomputable ==
  /\ CountsRecomputed(metadata, todos)
  /\ metadata.dependency_graph_valid = DependenciesOk(todos)

\* C6: right after update_metadata, dependency_graph_valid is true exactly
\* when validate_dependencies returns Ok on the current todos; it is false
\* when the dependencies form a cycle.
C6_FlagAfterUpdate ==
  op = "update_metadata"
    => /\ metadata.dependency_graph_valid <=> DependenciesOk(todos)
       /\ HasCycle(todos) => ~metadata.dependency_graph_valid

\* C6 witness: update_metadata ran on a list with distinct ids whose
\* dependencies form a cycle through two tasks
C6_Witness ==
  /\ op = "update_metadata"
  /\ DistinctIds(todos)
  /\ Len(todos) >= 2
  /\ HasCycle(todos)
  /\ \A i \in DOMAIN todos : todos[i].id \notin Range(todos[i].dependencies)
  /\ ~metadata.dependency_graph_valid

\* C7: add_todo appends the task as last element, leaves the earlier tasks
\* as they were, recomputes the count and hour fields and sets
\* dependency_graph_valid to true, whatever the dependencies and whatever
\* the flag was before.
C7_AddTodo ==
  op = "add_todo"
    => /\ Len(todos) = Len(before.todos) + 1
       /\ SubSeq(todos, 1, Len(before.todos)) = before.todos
       /\ todos[Len(todos)] \in ListTodos
       /\ CountsRecomputed(metadata, todos)
       /\ metadata.dependency_graph_valid = TRUE

\* C7 witness: add_todo was called on a cyclic list whose flag an earlier
\* update_metadata had set to false; the list is still cyclic, the flag true
C7_Witness ==
  /\ op = "add_todo"
  /\ before.after_update
  /\ ~before.metadata.dependency_graph_valid
  /\ HasCycle(before.todos)
  /\ HasCycle(todos)
  /\ metadata.dependency_graph_valid

\* C8: update_metadata called twice in a row leaves the metadata of the
\* first call (timestamp aside), and neither call changes todos.
C8_UpdateIdempotent ==
  /\ op = "update_metadata" => todos = before.todos
  /\ (op = "update_metadata" /\ before.after_update)
       => SansTime(metadata) = SansTime(before.metadata)

\* C8 witness: the second of two consecutive calls, on a non-empty list
\* with estimates, read another instant than the first
C8_Witness ==
  /\ op = "update_metadata"
  /\ before.after_update
  /\ todos # <<>>
  /\ metadata.total_estimated_hours > 0
  /\ metadata.generated_at # before.metadata.generated_at

(***************************************************************************)
(* Specification of the structure checks                                   *)
(***************************************************************************)
\* a configuration that switches every optional check off
RelaxedConfig ==
  [max_todos_per_batch           |-> None,
   min_task_detail_chars         |-> None,
   max_task_detail_chars         |-> None,
   max_complexity_per_task       |-> None,
   require_time_estimates        |-> FALSE,
   require_specific_actions      |-> FALSE,
   require_dependency_graph      |-> FALSE,
   prevent_circular_dependencies |-> FALSE,
   min_estimated_hours           |-> None,
   max_estimated_hours           |-> None]

\* Todo::new(content), then the id and the estimate set by the caller
StructTodo(id, content) ==
  [id              |-> id,
   content         |-> content,
   status          |-> "Pending",
   priority        |-> "Medium",
   estimated_hours |-> Some(4),
   dependencies    |-> <<>>]

\* TodoList::new() and TodoValidator::new() or ::with_config(..)
InitStruct ==
  /\ todos = <<>>
  /\ metadata = DefaultMetadata("T0")
  /\ config \in {DefaultConfig, RelaxedConfig}
  /\ op = "new"
  /\ result = None
  /\ before = [todos |-> <<>>, metadata |-> metadata, after_update |-> FALSE]
  /\ gates = <<>>
  /\ observed = None
  /\ run = None

\* the new todo gets a fresh id, or the id of the first todo again
AddStructTodo ==
  /\ Len(todos) < MaxBatch
  /\ \E id \in {Len(todos) + 1, 1}, content \in StructContents :
       add_todo(StructTodo(id, content), {"T0"})

NextStruct ==
  \/ AddStructTodo
  \/ ValidateTodoList

SpecStruct == InitStruct /\ [][NextStruct]_vars

(***************************************************************************)
(* Properties of validate_todo_list                                        *)
(***************************************************************************)
\* content after trimming and lower-casing, computed on the characters
RefNormalized(str) == to_lowercase(trim(str))

\* the first task of the list with the normalized content of task i
FirstSame(ts, i) ==
  CHOOSE j \in DOMAIN ts :
    /\ RefNormalized(ts[j].content) = RefNormalized(ts[i].content)
    /\ \A x \in DOMAIN ts :
         RefNormalized(ts[x].content) = RefNormalized(ts[i].content) => j <= x

\* the tasks whose normalized content an earlier task has, in list order
RECURSIVE DuplicateTasks(_, _)
DuplicateTasks(ts, i) ==
  IF i > Len(ts) THEN <<>>
  ELSE (IF FirstSame(ts, i) < i THEN <<i>> ELSE <<>>) \o DuplicateTasks(ts, i + 1)

\* the issues of the sequence with the given severity, category and message
\* format, in their order
RECURSIVE IssuesOf(_, _, _, _, _)
IssuesOf(issues, i, severity, category, format) ==
  IF i > Len(issues) THEN <<>>
  ELSE (IF /\ issues[i].severity = severity
           /\ issues[i].category = category
           /\ issues[i].message[1] = format
        THEN <<issues[i]>> ELSE <<>>)
       \o IssuesOf(issues, i + 1, severity, category, format)

\* C3: validate_todo_list returns is_valid = true exactly when no issue of
\* the returned list has severity Error; warnings never make it false.
C3_ValidIffNoError ==
  op = "validate_todo_list"
    => (result.is_valid <=> \A i \in DOMAIN result.issues : result.issues[i].severity # "Error")

\* C3 witness: a list of several tasks was found valid although the result
\* carries a Warning
C3_Witness ==
  /\ op = "validate_todo_list"
  /\ Len(todos) >= 2
  /\ result.is_valid
  /\ \E i \in DOMAIN result.issues : result.issues[i].severity = "Warning"

\* C9: for every task whose trimmed, lower-cased content equals that of an
\* earlier task there is exactly one Structure Warning 'Duplicate todo
\* content' attributed to it, and the id in the message is the id of the
\* first task with that content, also when three tasks share the content.
C9_DuplicateContentNamesFirst ==
  op = "validate_todo_list"
    => LET dups == DuplicateTasks(todos, 1)
           warn == IssuesOf(result.issues, 1, "Warning", "Structure",
                            "Duplicate todo content with ID: {}")
       IN /\ Len(warn) = Len(dups)
          /\ \A k \in DOMAIN dups :
               /\ k \in DOMAIN warn
               /\ warn[k].todo_id = Some(todos[dups[k]].id)
               /\ warn[k].message[2] = todos[FirstSame(todos, dups[k])].id

\* C10: k tasks carrying one id give exactly k - 1 Structure Errors
\* 'Duplicate todo ID' for that id, attributed to it, and a list in which
\* an id occurs twice is not valid.
C10_DuplicateIds ==
  op = "validate_todo_list"
    => LET errs == IssuesOf(result.issues, 1, "Error", "Structure", "Duplicate todo ID: {}")
       IN /\ \A id \in NodeIds(todos) :
               Cardinality({e \in DOMAIN errs : errs[e].message[2] = id /\ errs[e].todo_id = Some(id)})
                 = Cardinality({i \in DOMAIN todos : todos[i].id = id}) - 1
          /\ \A e \in DOMAIN errs : errs[e].message[2] \in NodeIds(todos)
          /\ ~DistinctIds(todos) => ~result.is_valid

\* C10 witness: a list in which one id is carried by two tasks that are not
\* neighbours was validated with exactly one such Error
C10_Witness ==
  /\ op = "validate_todo_list"
  /\ Len(todos) >= 3
  /\ todos[1].id = todos[3].id
  /\ todos[2].id # todos[1].id
  /\ Len(IssuesOf(result.issues, 1, "Error", "Structure", "Duplicate todo ID: {}")) = 1
  /\ ~result.is_valid

(***************************************************************************)
(* Specification of the dependency checks of the validator                 *)
(***************************************************************************)
\* the default configuration with the two dependency switches set as given
DepsConfig(require, prevent) ==
  [DefaultConfig EXCEPT !.require_dependency_graph = require,
                        !.prevent_circular_dependencies = prevent]

\* the ids a dependencies vector may name: the ids the tasks get, and one id
\* that no task of the list ever carries
DepsDepIds == 1..(MaxDeps + 1)

\* the dependencies vectors drawn from: none, one entry, or two entries (the
\* same id twice included)
DepsVectors ==
  {<<>>} \cup {<<a>> : a \in DepsDepIds}
         \cup {p \in DepsDepIds \X DepsDepIds : p[1] <= p[2]}

\* TodoList::new() and TodoValidator::with_config(..)
InitDeps ==
  /\ todos = <<>>
  /\ metadata = DefaultMetadata("T0")
  /\ config \in {DepsConfig(require, prevent) : require, prevent \in BOOLEAN}
  /\ op = "new"
  /\ result = None
  /\ before = [todos |-> <<>>, metadata |-> metadata, after_update |-> FALSE]
  /\ gates = <<>>
  /\ observed = None
  /\ run = None

AddDepsTodo ==
  /\ Len(todos) < MaxDeps
  /\ \E deps \in DepsVectors : add_todo(GraphTodo(Len(todos) + 1, deps), {"T0"})

NextDeps ==
  \/ AddDepsTodo
  \/ ValidateTodoList

SpecDeps == InitDeps /\ [][NextDeps]_vars

(***************************************************************************)
(* Properties of the dependency checks                                     *)
(***************************************************************************)
\* the issues of the sequence in the Dependencies category
DependencyIssues(issues) == {i \in DOMAIN issues : issues[i].category = "Dependencies"}

\* the Errors 'Circular dependency detected' of the sequence
CycleErrors(issues) ==
  IssuesOf(issues, 1, "Error", "Dependencies", "Circular dependency detected: {}")

\* C11: validate_todo_list emits exactly one Dependencies Error 'Circular
\* dependency detected' if require_dependency_graph and
\* prevent_circular_dependencies are both set and validate_dependencies
\* returns Err, none otherwise; when it is emitted the list is not valid.
C11_CycleError ==
  op = "validate_todo_list"
    => LET errs == CycleErrors(result.issues)
           due  == /\ config.require_dependency_graph
                   /\ config.prevent_circular_dependencies
                   /\ ~DependenciesOk(todos)
       IN /\ Len(errs) = IF due THEN 1 ELSE 0
          /\ \A i \in DOMAIN result.issues :
               result.issues[i].message[1] = "Circular dependency detected: {}"
                 => /\ result.issues[i].severity = "Error"
                    /\ result.issues[i].category = "Dependencies"
          /\ errs # <<>> => ~result.is_valid

\* C11 witness: a list whose two tasks depend on each other was validated
\* with both switches set; the one Error is there
C11_Witness ==
  /\ op = "validate_todo_list"
  /\ config.require_dependency_graph /\ config.prevent_circular_dependencies
  /\ Len(todos) = 2
  /\ todos[1].dependencies = <<2>> /\ todos[2].dependencies = <<1>>
  /\ Len(CycleErrors(result.issues)) = 1
  /\ ~result.is_valid

\* C12: with require_dependency_graph set there is one Dependencies Error
\* 'not found' for every entry of a dependencies vector that names no task
\* of the list, and one Dependencies Error 'depends on itself' for every task
\* whose dependencies contain its own id, whatever
\* prevent_circular_dependencies is; with require_dependency_graph not set
\* no issue of the Dependencies category is emitted.
C12_DependencyErrors ==
  op = "validate_todo_list"
    => IF config.require_dependency_graph
       THEN LET missing == IssuesOf(result.issues, 1, "Error", "Dependencies",
                                    "Dependency '{}' not found")
                selfdep == IssuesOf(result.issues, 1, "Error", "Dependencies",
                                    "Todo depends on itself")
            IN /\ \A t \in DOMAIN todos, x \in DepsDepIds :
                    Cardinality({e \in DOMAIN missing :
                                   /\ missing[e].todo_id = Some(todos[t].id)
                                   /\ missing[e].message[2] = x})
                      = IF x \in NodeIds(todos) THEN 0
                        ELSE CountEq(todos[t].dependencies, x)
               /\ Len(missing)
                    = SumOver([t \in DOMAIN todos |->
                                 Cardinality({d \in DOMAIN todos[t].dependencies :
                                                todos[t].dependencies[d] \notin NodeIds(todos)})],
                              DOMAIN todos)
               /\ \A t \in DOMAIN todos :
                    Cardinality({e \in DOMAIN selfdep : selfdep[e].todo_id = Some(todos[t].id)})
                      = IF todos[t].id \in Range(todos[t].dependencies) THEN 1 ELSE 0
               /\ Len(selfdep)
                    = Cardinality({t \in DOMAIN todos : todos[t].id \in Range(todos[t].dependencies)})
       ELSE DependencyIssues(result.issues) = {}

\* C12 witness: with the cycle check switched off, a list was validated in
\* which one task names a missing id twice and another depends on itself
C12_Witness ==
  /\ op = "validate_todo_list"
  /\ config.require_dependency_graph /\ ~config.prevent_circular_dependencies
  /\ Len(todos) = 2
  /\ todos[1].dependencies = <<3, 3>>
  /\ 2 \in Range(todos[2].dependencies)
  /\ Cardinality(DependencyIssues(result.issues)) = 3

\* C13: whenever validate_dependencies reports a cycle for the list, the
\* dependency metrics of validate_todo_list have has_cycles = true,
\* max_depth = 0 and critical_path_length = 0; when no cycle is reported
\* has_cycles = false.
C13_CycleMetrics ==
  op = "validate_todo_list"
    => LET dm == result.metrics.dependency_metrics IN
       IF DependenciesOk(todos)
       THEN ~dm.has_cycles
       ELSE dm.has_cycles /\ dm.max_depth = 0 /\ dm.critical_path_length = 0

\* C13 witness: a list of two tasks depending on each other was validated
\* with the dependency checks switched off; the metrics report the cycle
C13_Witness ==
  /\ op = "validate_todo_list"
  /\ ~config.require_dependency_graph
  /\ Len(todos) = 2
  /\ todos[1].dependencies = <<2>> /\ todos[2].dependencies = <<1>>
  /\ result.metrics.dependency_metrics.has_cycles
  /\ result.metrics.dependency_metrics.max_depth = 0

(***************************************************************************)
(* Specification of the per-item checks, the metrics and the suggestions   *)
(***************************************************************************)
\* a configuration with narrow limits: lists of one todo, contents of 10 to
\* 20 characters, complexity at most 3, estimates of 1 h to 3 h
TightConfig ==
  [max_todos_per_batch           |-> Some(1),
   min_task_detail_chars         |-> Some(10),
   max_task_detail_chars         |-> Some(20),
   max_complexity_per_task       |-> Some(3),
   require_time_estimates        |-> TRUE,
   require_specific_actions      |-> TRUE,
   require_dependency_graph      |-> TRUE,
   prevent_circular_dependencies |-> TRUE,
   min_estimated_hours           |-> Some(2),
   max_estimated_hours           |-> Some(6)]

QualityConfigs == {DefaultConfig, RelaxedConfig, TightConfig}

\* the estimates of the todos: none, 0.5 h, 2 h, 50 h
QualityEstimates == {None, Some(1), Some(4), Some(100)}

\* Todo::new(content), then the id, the estimate and the dependencies set
QualityTodo(id, content, hours, deps) ==
  [id              |-> id,
   content         |-> content,
   status          |-> "Pending",
   priority        |-> "Medium",
   estimated_hours |-> hours,
   dependencies    |-> deps]

\* TodoList::new() and TodoValidator::new() or ::with_config(..)
InitQuality ==
  /\ todos = <<>>
  /\ metadata = DefaultMetadata("T0")
  /\ config \in QualityConfigs
  /\ op = "new"
  /\ result = None
  /\ before = [todos |-> <<>>, metadata |-> metadata, after_update |-> FALSE]
  /\ gates = <<>>
  /\ observed = None
  /\ run = None

\* any content with any estimate and no dependency, or the plain task
\* depending on the first task of the list (on itself when it is the first)
AddQualityTodo ==
  /\ Len(todos) < MaxQuality
  /\ \/ \E content \in QualityContents, hours \in QualityEstimates :
          add_todo(QualityTodo(Len(todos) + 1, content, hours, <<>>), {"T0"})
     \/ add_todo(QualityTodo(Len(todos) + 1, GraphContent, Some(4), <<1>>), {"T0"})

NextQuality ==
  \/ AddQualityTodo
  \/ ValidateTodoList

SpecQuality == InitQuality /\ [][NextQuality]_vars

(***************************************************************************)
(* Properties of the per-item checks, the score and the suggestions        *)
(***************************************************************************)
\* every task of the list passes the four checks the score counts
AllTasksGood(cfg, ts) ==
  \A i \in DOMAIN ts :
    /\ is_actionable(ts[i])
    /\ Len(ts[i].content) >= unwrap_or(cfg.min_task_detail_chars, 10)
    /\ Len(ts[i].content) <= unwrap_or(cfg.max_task_detail_chars, 100)
    /\ complexity_score(ts[i]) <= unwrap_or(cfg.max_complexity_per_task, 8)
    /\ ts[i].estimated_hours.some

SuggestionRules(cfg, metrics) ==
  << [format |-> "Make {} todos more actionable by starting with action verbs (implement, create, add, etc.)",
      due    |-> metrics.actionable_count < metrics.total_count],
     [format |-> "Break down complex tasks (complexity > 8) into smaller, focused subtasks",
      due    |-> metrics.reasonable_complexity_count < metrics.total_count],
     [format |-> "Add time estimates to {} todos for better project planning",
      due    |-> cfg.require_time_estimates /\ metrics.estimated_count < metrics.total_count],
     [format |-> "Remove circular dependencies to enable proper task ordering",
      due    |-> metrics.dependency_metrics.has_cycles],
     [format |-> "Consider adding dependencies between related tasks for better sequencing",
      due    |-> metrics.dependency_metrics.todos_with_dependencies = 0 /\ metrics.total_count > 1],
     [format |-> "Overall todo list quality could be improved - focus on specific, actionable tasks with realistic estimates",
      due    |-> F32Lt(calculate_quality_score(cfg, metrics), F32Ratio(8, 10))] >>

\* the rules that are due, in their order
RECURSIVE DueFormats(_, _)
DueFormats(rules, i) ==
  IF i > Len(rules) THEN <<>>
  ELSE (IF rules[i].due THEN <<rules[i].format>> ELSE <<>>) \o DueFormats(rules, i + 1)

\* C15: the suggestions of validate_todo_list are, in the fixed order
\* actionability, complexity, time estimates, circular dependencies, add
\* dependencies, overall quality, exactly those whose condition on the
\* metrics holds, each once; they do not depend on the issues.
C15_Suggestions ==
  op = "validate_todo_list"
    => /\ [i \in DOMAIN result.suggestions |-> result.suggestions[i][1]]
            = DueFormats(SuggestionRules(config, result.metrics), 1)
       /\ result.suggestions = generate_suggestions(config, <<>>, result.metrics)

\* C15 witness: a list of two tasks was validated without required
\* estimates; a missing estimate is not suggested, other suggestions are
C15_Witness ==
  /\ op = "validate_todo_list"
  /\ Len(todos) = 2
  /\ ~config.require_time_estimates
  /\ result.metrics.estimated_count < result.metrics.total_count
  /\ Len(result.suggestions) >= 3
  /\ result.issues # <<>>

\* the eight checks of validate_todo on one task: whether each finds
\* something, and the severity, category and message format of its issue
ItemChecks(cfg, todo) ==
  LET hours == todo.estimated_hours IN
  << [holds |-> ~is_actionable(todo), severity |-> "Error", category |-> "Actionability",
      format |-> "Todo '{}' is not actionable - should start with action verb"],
     [holds |-> Len(todo.content) < unwrap_or(cfg.min_task_detail_chars, 10),
      severity |-> "Warning", category |-> "Completeness",
      format |-> "Todo content too short: {} chars (min {})"],
     [holds |-> Len(todo.content) > unwrap_or(cfg.max_task_detail_chars, 100),
      severity |-> "Warning", category |-> "Completeness",
      format |-> "Todo content too long: {} chars (max {})"],
     [holds |-> cfg.max_complexity_per_task.some
                 /\ complexity_score(todo) > cfg.max_complexity_per_task.v,
      severity |-> "Error", category |-> "Complexity",
      format |-> "Todo complexity {} exceeds maximum {}"],
     [holds |-> cfg.require_time_estimates /\ ~hours.some,
      severity |-> "Error", category |-> "TimeEstimate",
      format |-> "Todo missing time estimate"],
     [holds |-> hours.some /\ hours.v < unwrap_or(cfg.min_estimated_hours, 1),
      severity |-> "Warning", category |-> "TimeEstimate",
      format |-> "Time estimate {:.1}h seems too low (min {:.1}h)"],
     [holds |-> hours.some /\ hours.v > unwrap_or(cfg.max_estimated_hours, 80),
      severity |-> "Error", category |-> "TimeEstimate",
      format |-> "Time estimate {:.1}h exceeds maximum {:.1}h"],
     [holds |-> cfg.require_specific_actions
                 /\ \E w \in DOMAIN generic_words :
                      contains(to_lowercase(todo.content), generic_words[w]),
      severity |-> "Warning", category |-> "Completeness",
      format |-> "Todo contains generic language: '{}'"] >>

\* the issues of the per-item categories attributed to the task with this id
ItemIssues(issues, id) ==
  {i \in DOMAIN issues :
     /\ issues[i].todo_id = Some(id)
     /\ issues[i].category \in {"Actionability", "Completeness", "Complexity", "TimeEstimate"}}

\* C16: validate_todo adds an Error for a task exactly when the task is not
\* actionable, or exceeds a configured maximum complexity, or lacks a
\* required estimate, or has an estimate above the maximum; a content too
\* short or too long, an estimate below the minimum and vague wording add a
\* Warning only; every check is made for every task, none suppresses another.
C16_ItemChecks ==
  op = "validate_todo_list"
    => \A t \in DOMAIN todos :
         LET checks == ItemChecks(config, todos[t])
             mine   == ItemIssues(result.issues, todos[t].id)
         IN /\ \A c \in DOMAIN checks :
                 Cardinality({i \in mine :
                                /\ result.issues[i].message[1] = checks[c].format
                                /\ result.issues[i].severity = checks[c].severity
                                /\ result.issues[i].category = checks[c].category})
                   = IF checks[c].holds THEN 1 ELSE 0
            /\ Cardinality(mine) = Cardinality({c \in DOMAIN checks : checks[c].holds})
            /\ (\E i \in mine : result.issues[i].severity = "Error")
                 <=> (\E c \in {1, 4, 5, 7} : checks[c].holds)

\* C16 witness: one task failed two Error checks and a Warning check at once
\* and got the three issues
C16_Witness ==
  /\ op = "validate_todo_list"
  /\ \E t \in DOMAIN todos :
       /\ Cardinality({i \in ItemIssues(result.issues, todos[t].id) :
                         result.issues[i].severity = "Error"}) = 2
       /\ Cardinality({i \in ItemIssues(result.issues, todos[t].id) :
                         result.issues[i].severity = "Warning"}) = 1

\* C17: there is a Structure Error 'exceeds maximum' exactly when
\* max_todos_per_batch is configured and the number of tasks is strictly
\* greater, and a Structure Error 'Todo list is empty' exactly when the list
\* has no task; the empty list is not valid and that Error is its only issue.
C17_BatchSize ==
  op = "validate_todo_list"
    => LET over  == IssuesOf(result.issues, 1, "Error", "Structure",
                             "Todo count {} exceeds maximum {}")
           empty == IssuesOf(result.issues, 1, "Error", "Structure", "Todo list is empty")
       IN /\ Len(over) = IF /\ config.max_todos_per_batch.some
                            /\ Len(todos) > config.max_todos_per_batch.v
                         THEN 1 ELSE 0
          /\ Len(empty) = IF todos = <<>> THEN 1 ELSE 0
          /\ todos = <<>> => ~result.is_valid /\ Len(result.issues) = 1

\* C17 witness: a list one task longer than the configured maximum was
\* validated and is not valid although its tasks raise no Error themselves
C17_Witness ==
  /\ op = "validate_todo_list"
  /\ config.max_todos_per_batch.some
  /\ Len(todos) = config.max_todos_per_batch.v + 1
  /\ Cardinality({i \in DOMAIN result.issues : result.issues[i].severity = "Error"}) = 1
  /\ ~result.is_valid

(***************************************************************************)
(* Specification of Todo::complexity_score                                 *)
(***************************************************************************)
\* a list that is about to receive its one todo
InitComplexity ==
  /\ todos = <<>>
  /\ metadata = DefaultMetadata("T0")
  /\ config = DefaultConfig
  /\ op = "new"
  /\ result = None
  /\ before = [todos |-> <<>>, metadata |-> metadata, after_update |-> FALSE]
  /\ gates = <<>>
  /\ observed = None
  /\ run = None

AddComplexityTodo ==
  /\ todos = <<>>
  /\ \E content \in ComplexityContents :
       add_todo(QualityTodo(1, content, Some(4), <<>>), {"T0"})

\* todo.complexity_score() on the todo of the list
ComplexityScore ==
  /\ todos # <<>>
  /\ result' \in complexity_score_outcomes(todos[1])
  /\ op' = "complexity_score"
  /\ UNCHANGED <<todos, metadata, config, before, gates, observed, run>>

NextComplexity ==
  \/ AddComplexityTodo
  \/ ComplexityScore

SpecComplexity == InitComplexity /\ [][NextComplexity]_vars

\* min(10, 1 + complexity words present + (1 if a technical term is present)
\* + floor(separator occurrences / 2)), on the lower-cased content
RefComplexity(str) ==
  LET content == to_lowercase(str)
      words   == Cardinality({w \in DOMAIN complexity_words : contains(content, complexity_words[w])})
      tech    == IF \E w \in DOMAIN technical_terms : contains(content, technical_terms[w])
                 THEN 1 ELSE 0
      sum     == 1 + words + tech + action_count(content) \div 2
  IN IF sum < 10 THEN sum ELSE 10

\* C18: for every content, complexity_score returns min(10, 1 + complexity
\* words present + (1 if a technical term is present) + floor(separators /
\* 2)), a value in 1..10, whatever the number of separators; the u8
\* accumulator and the cast to u8 never overflow or wrap.
C18_ComplexityValue ==
  op = "complexity_score"
    => /\ ~result.panic
       /\ result.v = RefComplexity(todos[1].content)
       /\ result.v \in 1..10

(***************************************************************************)
(* QualityGatePipeline (src/src/quality/gates.rs)                          *)
(***************************************************************************)
\* an integer as f64, in halves
as_f64(n) == 2 * n

\* an f64, in halves, cast to u32: the fraction is dropped, a negative value
\* gives 0
as_u32(x) == IF x < 0 THEN 0 ELSE x \div 2

QualityGate(id, description, gate_type, threshold, mandatory) ==
  [id |-> id, description |-> description, gate_type |-> gate_type,
   threshold |-> threshold, mandatory |-> mandatory]

GateResult(gate, passed, actual_value, message, suggestions) ==
  [gate |-> gate, passed |-> passed, actual_value |-> actual_value,
   message |-> message, suggestions |-> suggestions]

QualityMetrics(coverage, complexity, tests, satd_count) ==
  [coverage |-> coverage, complexity |-> complexity, doctest_count |-> tests,
   property_test_count |-> tests, example_count |-> tests, satd_count |-> satd_count]

\* ProxyConfig::default, the fields the gates read
DefaultProxyConfig ==
  [min_coverage |-> 160, require_doctests |-> TRUE, require_property_tests |-> TRUE,
   require_examples |-> TRUE, zero_satd |-> TRUE, max_complexity |-> 8]

\* a configuration that asks for less
LenientProxyConfig ==
  [min_coverage |-> 140, require_doctests |-> FALSE, require_property_tests |-> FALSE,
   require_examples |-> FALSE, zero_satd |-> FALSE, max_complexity |-> 10]

ProxyConfigs == {DefaultProxyConfig, LenientProxyConfig}

\* QualityGatePipeline::create_default_gates
create_default_gates(cfg) ==
  Flatten(<<
    <<QualityGate("coverage_80_percent",
                  <<"Code coverage must be at least {}%", cfg.min_coverage>>,
                  "Coverage", Some(cfg.min_coverage), TRUE)>>,
    PushIf(cfg.require_doctests,
           QualityGate("doctests_required", <<"All public APIs must have doctests">>,
                       "Doctests", None, TRUE)),
    PushIf(cfg.require_property_tests,
           QualityGate("property_tests_required", <<"Complex logic must have property tests">>,
                       "PropertyTests", None, TRUE)),
    PushIf(cfg.require_examples,
           QualityGate("examples_required", <<"Working examples must be provided">>,
                       "Examples", None, TRUE)),
    PushIf(cfg.zero_satd,
           QualityGate("zero_satd_tolerance", <<"No TODO/FIXME/HACK comments allowed">>,
                       "SatdDetection", Some(0), TRUE)),
    <<QualityGate("complexity_limit",
                  <<"Cyclomatic complexity must be under {}", cfg.max_complexity>>,
                  "Complexity", Some(as_f64(cfg.max_complexity)), TRUE)>>,
    <<QualityGate("clippy_clean", <<"Code must pass clippy linting">>,
                  "Linting", None, TRUE)>>,
    <<QualityGate("rustfmt_compliant", <<"Code must be formatted with rustfmt">>,
                  "Formatting", None, FALSE)>>
  >>, 1)

\* variant: the suggestions are given whether the gate passed or not
SuggestIfFailed_Always(passed, suggestions) == suggestions

\* the suggestions of a result: none when the gate passed
SuggestIfFailed(passed, suggestions) == IF passed THEN <<>> ELSE suggestions

\* variant: a placeholder gate that carries a threshold is marked failed
placeholder_result_Thresholded(gate, message) ==
  GateResult(gate, ~gate.threshold.some, None, message, <<>>)

\* the result of the Linting and of the Formatting arm of validate_gate
placeholder_result(gate, message) == GateResult(gate, TRUE, None, message, <<>>)

\* QualityGatePipeline::validate_gate
validate_gate(gate, m) ==
  CASE gate.gate_type = "Coverage" ->
         LET passed == m.coverage >= unwrap_or(gate.threshold, 160)
         IN GateResult(gate, passed, Some(m.coverage),
              IF passed THEN <<"Coverage {}% meets requirement", m.coverage>>
              ELSE <<"Coverage {}% below required {}%", m.coverage,
                     unwrap_or(gate.threshold, 160)>>,
              SuggestIfFailed(passed, <<"Add more unit tests to increase coverage">>))
    [] gate.gate_type = "Doctests" ->
         LET passed == m.doctest_count > 0
         IN GateResult(gate, passed, Some(as_f64(m.doctest_count)),
              IF passed THEN <<"{} doctests found", m.doctest_count>>
              ELSE <<"No doctests found">>,
              SuggestIfFailed(passed, <<"Add doctests to all public APIs">>))
    [] gate.gate_type = "PropertyTests" ->
         LET passed == m.property_test_count > 0
         IN GateResult(gate, passed, Some(as_f64(m.property_test_count)),
              IF passed THEN <<"{} property tests found", m.property_test_count>>
              ELSE <<"No property tests found">>,
              SuggestIfFailed(passed, <<"Add property tests for complex logic">>))
    [] gate.gate_type = "Examples" ->
         LET passed == m.example_count > 0
         IN GateResult(gate, passed, Some(as_f64(m.example_count)),
              IF passed THEN <<"{} examples found", m.example_count>>
              ELSE <<"No examples found">>,
              SuggestIfFailed(passed, <<"Add working examples demonstrating usage">>))
    [] gate.gate_type = "SatdDetection" ->
         LET passed == m.satd_count = 0
         IN GateResult(gate, passed, Some(as_f64(m.satd_count)),
              IF passed THEN <<"No SATD comments detected">>
              ELSE <<"{} SATD comments found", m.satd_count>>,
              SuggestIfFailed(passed, <<"Remove all TODO/FIXME/HACK comments",
                                        "Convert TODOs to proper issue tracking">>))
    [] gate.gate_type = "Complexity" ->
         LET passed == m.complexity <= as_u32(unwrap_or(gate.threshold, 16))
         IN GateResult(gate, passed, Some(as_f64(m.complexity)),
              IF passed THEN <<"Complexity {} within limit", m.complexity>>
              ELSE <<"Complexity {} exceeds limit of {}", m.complexity,
                     unwrap_or(gate.threshold, 16)>>,
              SuggestIfFailed(passed, <<"Refactor complex functions into smaller units",
                                        "Extract helper functions to reduce complexity">>))
    [] gate.gate_type = "Linting" ->
         placeholder_result(gate, <<"Linting validation placeholder">>)
    [] gate.gate_type = "Formatting" ->
         placeholder_result(gate, <<"Formatting validation placeholder">>)

\* variant: validate reports the mandatory gates only
validate_MandatoryOnly(gs, m) ==
  LET kept == SelectSeq(gs, LAMBDA g : g.mandatory)
  IN [i \in 1..Len(kept) |-> validate_gate(kept[i], m)]

\* QualityGatePipeline::validate: the results of the gates, in list order
validate(gs, m) == [i \in 1..Len(gs) |-> validate_gate(gs[i], m)]

\* variant: every gate has to pass, mandatory or not
all_mandatory_gates_pass_AllGates(gs, m) ==
  LET results == validate(gs, m)
  IN \A i \in DOMAIN results : results[i].passed

\* QualityGatePipeline::all_mandatory_gates_pass
all_mandatory_gates_pass(gs, m) ==
  LET results == validate(gs, m)
      kept    == SelectSeq(results, LAMBDA r : r.gate.mandatory)
  IN \A i \in DOMAIN kept : kept[i].passed

\* QualityGatePipeline::get_failed_gates
get_failed_gates(gs, m) == SelectSeq(validate(gs, m), LAMBDA r : ~r.passed)

\* the gates a caller adds to the default ones
CustomGates ==
  { QualityGate("satd_budget", <<"At most 5 TODO/FIXME/HACK comments">>,
                "SatdDetection", Some(10), TRUE),
    QualityGate("complexity_limit", <<"Cyclomatic complexity must be under 8.5">>,
                "Complexity", Some(17), FALSE),
    QualityGate("complexity_floor", <<"Cyclomatic complexity must be under -1">>,
                "Complexity", Some(-2), FALSE),
    QualityGate("clippy_clean", <<"Fewer than 3 clippy warnings">>,
                "Linting", Some(6), TRUE),
    QualityGate("rustfmt_strict", <<"Code must be formatted with rustfmt">>,
                "Formatting", Some(0), TRUE) }

\* the ids a caller removes
RemovedIds ==
  {"coverage_80_percent", "complexity_limit", "clippy_clean", "no_such_gate"}

\* the metrics a caller hands to validate
MetricsInputs ==
  { QualityMetrics(coverage, complexity, counts[1], counts[2]) :
      coverage \in {159, 180}, complexity \in {0, 8, 10},
      counts \in {<<2, 0>>, <<0, 3>>} }

\* the custom gates of a gate list
CustomCount(gs) == Cardinality({i \in DOMAIN gs : gs[i] \in CustomGates})

\* the gate list at the entry of a call of the pipeline, with the argument
\* of the call
GateSnapshot(arg) == [gates |-> gates, arg |-> arg]

\* QualityGatePipeline::with_config
InitGates ==
  /\ todos = <<>>
  /\ metadata = DefaultMetadata("T0")
  /\ config = DefaultConfig
  /\ op = "with_config"
  /\ result = None
  /\ \E cfg \in ProxyConfigs :
       /\ gates = create_default_gates(cfg)
       /\ before = [gates |-> gates, arg |-> cfg]
  /\ observed = None
  /\ run = None

\* QualityGatePipeline::add_gate
add_gate(gate) ==
  /\ gates' = Append(gates, gate)
  /\ before' = GateSnapshot(gate)
  /\ op' = "add_gate"
  /\ result' = None
  /\ UNCHANGED <<todos, metadata, config, observed, run>>

\* variant: remove_gate deletes the first gate of that id only
remove_gate_First(gate_id) ==
  /\ gates' = IF \E i \in DOMAIN gates : gates[i].id = gate_id
              THEN LET first == CHOOSE i \in DOMAIN gates :
                                  /\ gates[i].id = gate_id
                                  /\ \A j \in 1..(i - 1) : gates[j].id # gate_id
                   IN SubSeq(gates, 1, first - 1) \o SubSeq(gates, first + 1, Len(gates))
              ELSE gates
  /\ before' = GateSnapshot(gate_id)
  /\ op' = "remove_gate"
  /\ result' = None
  /\ UNCHANGED <<todos, metadata, config, observed, run>>

\* QualityGatePipeline::remove_gate
remove_gate(gate_id) ==
  /\ gates' = SelectSeq(gates, LAMBDA g : g.id # gate_id)
  /\ before' = GateSnapshot(gate_id)
  /\ op' = "remove_gate"
  /\ result' = None
  /\ UNCHANGED <<todos, metadata, config, observed, run>>

AddGate ==
  /\ CustomCount(gates) < MaxCustom
  /\ \E gate \in CustomGates : add_gate(gate)

RemoveGate == \E gate_id \in RemovedIds : remove_gate(gate_id)

\* pipeline.validate(&metrics)
Validate ==
  \E m \in MetricsInputs :
    /\ result' = validate(gates, m)
    /\ before' = GateSnapshot(m)
    /\ observed' = m
    /\ op' = "validate"
    /\ UNCHANGED <<todos, metadata, config, gates, run>>

\* pipeline.all_mandatory_gates_pass(&metrics)
AllMandatoryGatesPass ==
  \E m \in MetricsInputs :
    /\ result' = all_mandatory_gates_pass(gates, m)
    /\ before' = GateSnapshot(m)
    /\ observed' = m
    /\ op' = "all_mandatory_gates_pass"
    /\ UNCHANGED <<todos, metadata, config, gates, run>>

\* pipeline.get_failed_gates(&metrics)
GetFailedGates ==
  \E m \in MetricsInputs :
    /\ result' = get_failed_gates(gates, m)
    /\ before' = GateSnapshot(m)
    /\ observed' = m
    /\ op' = "get_failed_gates"
    /\ UNCHANGED <<todos, metadata, config, gates, run>>

NextGates ==
  \/ AddGate
  \/ RemoveGate
  \/ Validate
  \/ AllMandatoryGatesPass
  \/ GetFailedGates

SpecGates == InitGates /\ [][NextGates]_vars

\* C19: validate returns exactly one GateResult per configured gate, in the
\* order of the gate list, each result carrying a copy of its gate; the
\* result list is determined by the gate list and the metrics alone, so two
\* calls with the same gate list and the same metrics return identical lists.
C19_OneResultPerGate ==
  op = "validate"
    => /\ Len(result) = Len(gates)
       /\ \A i \in DOMAIN gates : result[i].gate = gates[i]
       /\ \A i \in DOMAIN gates : result[i] = validate_gate(gates[i], observed)

\* validate ran on a list with a custom gate behind the default ones, a
\* mandatory gate failed and an optional gate is in the list
C19_Witness ==
  /\ op = "validate"
  /\ Len(result) >= 5
  /\ \E i \in DOMAIN gates : gates[i] \in CustomGates
  /\ \E i, j \in DOMAIN gates : i < j /\ gates[i].gate_type # gates[j].gate_type
  /\ \E i \in DOMAIN gates : ~gates[i].mandatory
  /\ \E i \in DOMAIN result : ~result[i].passed

\* C20: for every gate that carries a threshold, validate marks a Coverage
\* gate passed if and only if the observed coverage is at least the gate's
\* threshold, and marks a Complexity gate or a SatdDetection gate passed if
\* and only if the observed value is at most the gate's threshold.
C20_ThresholdGates ==
  op = "validate"
    => \A i \in DOMAIN result :
         LET gate == result[i].gate
         IN gate.threshold.some
              => /\ gate.gate_type = "Coverage"
                      => (result[i].passed <=> observed.coverage >= gate.threshold.v)
                 /\ gate.gate_type = "Complexity"
                      => (result[i].passed <=> as_f64(observed.complexity) <= gate.threshold.v)
                 /\ gate.gate_type = "SatdDetection"
                      => (result[i].passed <=> as_f64(observed.satd_count) <= gate.threshold.v)

\* C21: all_mandatory_gates_pass(metrics) is true if and only if every gate
\* of the current gate list with mandatory = true has passed = true in
\* validate(metrics); the gates that are not mandatory do not influence it,
\* and it is true when the list has no mandatory gate.
C21_MandatoryGates ==
  op = "all_mandatory_gates_pass"
    => LET results == validate(gates, observed)
       IN /\ result = (\A i \in DOMAIN gates : gates[i].mandatory => results[i].passed)
          /\ (\A i \in DOMAIN gates : ~gates[i].mandatory) => result = TRUE

\* the answer is true on a list without any mandatory gate, one of whose
\* gates failed
C21_Witness ==
  /\ op = "all_mandatory_gates_pass"
  /\ result = TRUE
  /\ gates # <<>>
  /\ \A i \in DOMAIN gates : ~gates[i].mandatory
  /\ \E i \in DOMAIN gates : ~validate_gate(gates[i], observed).passed

\* the gates of gs whose id is not id, in their order
RECURSIVE GatesWithout(_, _)
GatesWithout(gs, id) ==
  IF gs = <<>> THEN <<>>
  ELSE IF Head(gs).id = id THEN GatesWithout(Tail(gs), id)
       ELSE <<Head(gs)>> \o GatesWithout(Tail(gs), id)

\* C22: the gate list starts as the default gates; add_gate(g) appends g at
\* the end; remove_gate(id) deletes every gate whose id is id, keeps the
\* other gates in their order and changes nothing for an unknown id;
\* validate, all_mandatory_gates_pass and get_failed_gates leave the list as
\* it was.  Holding at every call, this gives the list after any sequence
\* of calls.
C22_GateList ==
  /\ op = "with_config" => gates = create_default_gates(before.arg)
  /\ op = "add_gate"
       => /\ Len(gates) = Len(before.gates) + 1
          /\ gates[Len(gates)] = before.arg
          /\ \A i \in DOMAIN before.gates : gates[i] = before.gates[i]
  /\ op = "remove_gate"
       => /\ gates = GatesWithout(before.gates, before.arg)
          /\ (\A i \in DOMAIN before.gates : before.gates[i].id # before.arg)
               => gates = before.gates
  /\ op \in {"validate", "all_mandatory_gates_pass", "get_failed_gates"}
       => gates = before.gates

\* remove_gate deleted two gates of one id that were not neighbours and kept
\* gates before, between and behind them
C22_Witness ==
  /\ op = "remove_gate"
  /\ Len(gates) = Len(before.gates) - 2
  /\ \E i, j, k, l \in DOMAIN before.gates :
       /\ i < j /\ j < k /\ k < l
       /\ before.gates[j].id = before.arg
       /\ before.gates[l].id = before.arg
       /\ before.gates[i].id # before.arg
       /\ before.gates[k].id # before.arg
  /\ gates # <<>>

\* the gates of gs that are neither Linting nor Formatting gates
Enforced(gs) == SelectSeq(gs, LAMBDA g : g.gate_type \notin {"Linting", "Formatting"})

\* C23: a gate of type Linting or Formatting has passed = true, no observed
\* value and no suggestions, for every metrics input and every threshold;
\* so the answer of all_mandatory_gates_pass is the one the list without
\* these gates gives.
C23_Placeholders ==
  /\ op = "validate"
       => \A i \in DOMAIN result :
            result[i].gate.gate_type \in {"Linting", "Formatting"}
              => /\ result[i].passed
                 /\ ~result[i].actual_value.some
                 /\ result[i].suggestions = <<>>
  /\ op = "all_mandatory_gates_pass"
       => LET rest == validate(Enforced(gates), observed)
          IN result = (\A i \in DOMAIN rest : rest[i].gate.mandatory => rest[i].passed)

\* validate ran on a list with a mandatory Linting gate that carries a
\* threshold and a mandatory Formatting gate, while another gate failed
C23_Witness ==
  /\ op = "validate"
  /\ \E i \in DOMAIN result :
       /\ result[i].gate.gate_type = "Linting"
       /\ result[i].gate.threshold.some
       /\ result[i].gate.mandatory
  /\ \E i \in DOMAIN result : result[i].gate.gate_type = "Formatting"
  /\ \E i \in DOMAIN result : ~result[i].passed

\* the results of rs that did not pass, in their order
RECURSIVE FailedOf(_)
FailedOf(rs) ==
  IF rs = <<>> THEN <<>>
  ELSE IF Head(rs).passed THEN FailedOf(Tail(rs))
       ELSE <<Head(rs)>> \o FailedOf(Tail(rs))

\* C24: for every gate and every metrics input the suggestions of the
\* GateResult are non-empty if and only if passed is false; a Complexity
\* gate with threshold 8 evaluated against complexity 10 has passed = false
\* and suggestions.  get_failed_gates returns exactly the results with
\* passed = false, in gate order.
C24_Suggestions ==
  /\ op = "validate"
       => /\ \A i \in DOMAIN result : (result[i].suggestions # <<>>) <=> ~result[i].passed
          /\ \A i \in DOMAIN result :
               /\ result[i].gate.gate_type = "Complexity"
               /\ result[i].gate.threshold = Some(16)
               /\ observed.complexity = 10
               => ~result[i].passed /\ result[i].suggestions # <<>>
  /\ op = "get_failed_gates"
       => /\ result = FailedOf(validate(gates, observed))
          /\ \A i \in DOMAIN result : ~result[i].passed /\ result[i].suggestions # <<>>

\* get_failed_gates returned the Complexity gate of threshold 8 for
\* complexity 10, and left out a gate that passed
C24_Witness ==
  /\ op = "get_failed_gates"
  /\ observed.complexity = 10
  /\ \E i \in DOMAIN result :
       /\ result[i].gate.gate_type = "Complexity"
       /\ result[i].gate.threshold = Some(16)
       /\ result[i].suggestions # <<>>
  /\ Len(result) < Len(gates)
  /\ Len(result) >= 2

(***************************************************************************)
(* TodoValidator::calculate_todo_depth, one step at a time                 *)
(* (validators/todo.rs 547-585)                                            *)
(*                                                                         *)
(* run.stack holds the frames of the recursion, the innermost last; a      *)
(* frame is at "enter" (nothing done yet), at "loop" (at the head of the   *)
(* for loop, before dependency i) or at "call" (waiting for the recursive  *)
(* call on dependency i).  run.ret is the value of the last return.        *)
(* run.expanded lists the ids that passed the cache check, run.skipped     *)
(* counts the dependencies passed over by `continue`.                      *)
(***************************************************************************)
\* the ids of the step-by-step specifications: 3 names no task of a list of
\* two todos
StepIds == 1..3

\* the dependencies vectors of the step-by-step specifications
StepVectors == {<<>>} \cup {<<a>> : a \in StepIds} \cup (StepIds \X StepIds)

\* the task lists: the todo at position i has id i or the id of the first
StepLists ==
  UNION {{ts \in [1..n -> {GraphTodo(id, deps) : id \in StepIds, deps \in StepVectors}] :
            \A i \in 1..n : ts[i].id \in {1, i}} : n \in 1..MaxNodes}

DepthFrame(id, pc, i, max_dep_depth) ==
  [id |-> id, pc |-> pc, i |-> i, max_dep_depth |-> max_dep_depth]

Top(stack) == stack[Len(stack)]

Pop(stack) == SubSeq(stack, 1, Len(stack) - 1)

ReplaceTop(stack, frame) == Append(Pop(stack), frame)

\* validator.calculate_todo_depth(start, &todo_list, &mut HashMap::new()) is
\* entered
InitDepth ==
  /\ todos \in StepLists
  /\ metadata = DefaultMetadata("T0")
  /\ config = DefaultConfig
  /\ op = "calculate_todo_depth"
  /\ result = None
  /\ before = [todos |-> <<>>, metadata |-> metadata, after_update |-> FALSE]
  /\ gates = <<>>
  /\ observed = None
  /\ \E start \in StepIds :
       run = [cache |-> << >>, stack |-> <<DepthFrame(start, "enter", 0, 0)>>,
              ret |-> 0, expanded |-> <<>>, skipped |-> 0]

\* the dependencies of the todo that find() gives for the id of the frame
FrameDeps(frame) == todos[FindTodo(todos, frame.id).v].dependencies

\* from the entry of calculate_todo_depth to its first return or to the head
\* of the for loop
DepthEnter ==
  /\ run # None /\ run.stack # <<>>
  /\ Top(run.stack).pc = "enter"
  /\ LET frame == Top(run.stack)
         c0    == CacheInsert(run.cache, frame.id, 0)
         todo  == FindTodo(todos, frame.id)
         grown == Append(run.expanded, frame.id)
     IN run' =
          IF CacheGet(run.cache, frame.id).some
          THEN [run EXCEPT !.stack = Pop(@), !.ret = run.cache[frame.id]]
          ELSE IF ~todo.some
          THEN [run EXCEPT !.stack = Pop(@), !.ret = 0, !.cache = c0, !.expanded = grown]
          ELSE IF todos[todo.v].dependencies = <<>>
          THEN [run EXCEPT !.stack = Pop(@), !.ret = 1,
                           !.cache = CacheInsert(c0, frame.id, 1), !.expanded = grown]
          ELSE [run EXCEPT !.stack = ReplaceTop(@, DepthFrame(frame.id, "loop", 1, 0)),
                           !.cache = c0, !.expanded = grown]
  /\ UNCHANGED <<todos, metadata, config, op, result, before, gates, observed>>

\* variant: a dependency whose cache entry is the sentinel is recursed into
DepthLoop_NoSkip ==
  /\ run # None /\ run.stack # <<>>
  /\ Top(run.stack).pc = "loop"
  /\ LET frame == Top(run.stack)
         deps  == FrameDeps(frame)
         depth == frame.max_dep_depth + 1
     IN run' =
          IF frame.i > Len(deps)
          THEN [run EXCEPT !.stack = Pop(@), !.ret = depth,
                           !.cache = CacheInsert(@, frame.id, depth)]
          ELSE [run EXCEPT !.stack =
                  Append(ReplaceTop(@, [frame EXCEPT !.pc = "call"]),
                         DepthFrame(deps[frame.i], "enter", 0, 0))]
  /\ UNCHANGED <<todos, metadata, config, op, result, before, gates, observed>>

\* one pass through the head of `for dep_id in &todo.dependencies`: the end of
\* the loop and the return, the `continue`, or the recursive call
DepthLoop ==
  /\ run # None /\ run.stack # <<>>
  /\ Top(run.stack).pc = "loop"
  /\ LET frame == Top(run.stack)
         deps  == FrameDeps(frame)
         depth == frame.max_dep_depth + 1
     IN run' =
          IF frame.i > Len(deps)
          THEN [run EXCEPT !.stack = Pop(@), !.ret = depth,
                           !.cache = CacheInsert(@, frame.id, depth)]
          ELSE IF CacheGet(run.cache, deps[frame.i]) = Some(0)
          THEN [run EXCEPT !.stack = ReplaceTop(@, [frame EXCEPT !.i = @ + 1]),
                           !.skipped = @ + 1]
          ELSE [run EXCEPT !.stack =
                  Append(ReplaceTop(@, [frame EXCEPT !.pc = "call"]),
                         DepthFrame(deps[frame.i], "enter", 0, 0))]
  /\ UNCHANGED <<todos, metadata, config, op, result, before, gates, observed>>

\* the recursive call has returned: max_dep_depth = max_dep_depth.max(dep_depth)
DepthReturn ==
  /\ run # None /\ run.stack # <<>>
  /\ Top(run.stack).pc = "call"
  /\ LET frame == Top(run.stack)
     IN run' = [run EXCEPT !.stack =
                  ReplaceTop(@, [frame EXCEPT !.pc = "loop", !.i = @ + 1,
                                   !.max_dep_depth = Max2(@, run.ret)])]
  /\ UNCHANGED <<todos, metadata, config, op, result, before, gates, observed>>

NextDepth ==
  \/ DepthEnter
  \/ DepthLoop
  \/ DepthReturn

SpecDepth == InitDepth /\ [][NextDepth]_vars

\* a call that is running keeps running
SpecDepthFair == SpecDepth /\ WF_vars(NextDepth)

\* every id named by the list: the ids of its todos and the ids in their
\* dependencies vectors
NamedIds(ts) == NodeIds(ts) \cup UNION {Range(ts[i].dependencies) : i \in DOMAIN ts}

DepthDone == run.stack = <<>>

\* no id passed the cache check twice, a frame is entered for an id whose
\* cache entry is the sentinel 0 at the outermost call only (there is no
\* such entry then), and the recursion is never deeper than the ids
DepthSafe ==
  /\ \A i, j \in DOMAIN run.expanded : run.expanded[i] = run.expanded[j] => i = j
  /\ \A k \in DOMAIN run.stack :
       run.stack[k].pc = "enter" => CacheGet(run.cache, run.stack[k].id) # Some(0)
  /\ Len(run.stack) <= Cardinality(NamedIds(todos) \cup {run.stack[k].id : k \in DOMAIN run.stack})
  /\ DepthDone => run.ret = calculate_todo_depth(run.expanded[1], todos, << >>).depth

\* C25: calculate_todo_depth terminates for every task list and every start
\* id, lists with dependency cycles, self-dependencies and dependency ids
\* that name no task included: a dependency whose cache entry is still the
\* sentinel 0 is skipped instead of being recursed into, and each id is
\* expanded at most once.
C25_DepthTerminates == []DepthSafe /\ <>DepthDone

\* the call returned on a list with a cycle between two tasks and a
\* dependency that names no task, after it skipped a dependency
C25_Witness ==
  /\ op = "calculate_todo_depth"
  /\ DepthDone
  /\ run.skipped > 0
  /\ Len(run.expanded) = 3
  /\ \E i, j \in DOMAIN todos :
       /\ todos[i].id # todos[j].id
       /\ todos[j].id \in Range(todos[i].dependencies)
       /\ todos[i].id \in Range(todos[j].dependencies)
  /\ ~NoDangling(todos)

(***************************************************************************)
(* The Kahn loop of TodoList::validate_dependencies, one step at a time    *)
(* (models/todo.rs 464-487)                                                *)
(*                                                                         *)
(* run holds in_degree, queue and processed, the id `current` and the      *)
(* index i of the neighbor the inner loop is at; run.pc is "pop" at the    *)
(* head of the while loop, "relax" inside the for loop and "done" after    *)
(* the while loop.  run.dequeued lists the ids popped, run.underflow       *)
(* records a `*degree -= 1` on a counter that was 0, run.qorder keeps the  *)
(* order in which the queue was collected.                                 *)
(***************************************************************************)
\* validate_dependencies has built graph and in_degree and collected the
\* queue
InitKahn ==
  /\ todos \in StepLists
  /\ metadata = DefaultMetadata("T0")
  /\ config = DefaultConfig
  /\ op = "validate_dependencies"
  /\ result = None
  /\ before = [todos |-> <<>>, metadata |-> metadata, after_update |-> FALSE]
  /\ gates = <<>>
  /\ observed = None
  /\ \E qorder \in QueueOrders(todos) :
       run = [in_degree |-> InDegreeOf(todos), queue |-> qorder, processed |-> 0,
              underflow |-> FALSE, dequeued |-> <<>>,
              pc |-> "pop", current |-> 0, i |-> 0, qorder |-> qorder]

\* `while let Some(current) = queue.pop_front()` with `processed += 1`, or
\* the exit of the loop
KahnPop ==
  /\ run # None /\ run.pc = "pop"
  /\ run' = IF run.queue = <<>>
            THEN [run EXCEPT !.pc = "done"]
            ELSE [run EXCEPT !.queue = Tail(@), !.processed = @ + 1,
                             !.dequeued = Append(@, Head(run.queue)),
                             !.current = Head(run.queue), !.i = 1,
                             !.pc = IF Head(run.queue) \in DOMAIN GraphOf(todos)
                                    THEN "relax" ELSE "pop"]
  /\ UNCHANGED <<todos, metadata, config, op, result, before, gates, observed>>

\* one iteration of `for neighbor in neighbors`, or the end of the for loop
KahnRelax ==
  /\ run # None /\ run.pc = "relax"
  /\ LET neighbors == GraphOf(todos)[run.current]
     IN run' =
          IF run.i > Len(neighbors) THEN [run EXCEPT !.pc = "pop"]
          ELSE LET nb == neighbors[run.i] IN
               IF nb \in DOMAIN run.in_degree
               THEN LET d  == run.in_degree[nb]
                        nd == d - 1
                    IN [run EXCEPT !.in_degree = [@ EXCEPT ![nb] = nd],
                                   !.underflow = @ \/ d = 0,
                                   !.queue     = IF nd = 0 THEN Append(@, nb) ELSE @,
                                   !.i         = @ + 1]
               ELSE [run EXCEPT !.i = @ + 1]
  /\ UNCHANGED <<todos, metadata, config, op, result, before, gates, observed>>

NextKahn ==
  \/ KahnPop
  \/ KahnRelax

SpecKahn == InitKahn /\ [][NextKahn]_vars

\* a loop that is running keeps running
SpecKahnFair == SpecKahn /\ WF_vars(NextKahn)

KahnDone == run.pc = "done"

\* no counter was decremented while 0, no id was popped twice, processed
\* counts the ids popped and is at most the number of distinct ids; at the
\* exit the loop has computed what the recursive definition gives
KahnSafe ==
  /\ ~run.underflow
  /\ \A n \in DOMAIN run.in_degree : run.in_degree[n] >= 0
  /\ \A i, j \in DOMAIN run.dequeued : run.dequeued[i] = run.dequeued[j] => i = j
  /\ run.processed = Len(run.dequeued)
  /\ run.processed <= Cardinality(NodeIds(todos))
  /\ KahnDone => LET k == Kahn(todos, run.qorder)
                 IN /\ k.in_degree = run.in_degree
                    /\ k.dequeued = run.dequeued
                    /\ k.processed = run.processed
                    /\ ~k.underflow

\* C26: in the Kahn loop of validate_dependencies no in-degree counter is
\* decremented while it is 0, every id is dequeued at most once, and the
\* loop terminates with processed at most the number of distinct ids; for
\* every list, with duplicate ids, repeated entries inside one dependencies
\* vector, self-dependencies and dependency ids that name no task.
C26_KahnLoop == []KahnSafe /\ <>KahnDone

\* the loop ended after it took a counter from 2 to 0 for a task named
\* twice in one dependencies vector and popped that task
C26_Witness ==
  /\ op = "validate_dependencies"
  /\ KahnDone
  /\ \E i \in DOMAIN todos :
       /\ Len(todos[i].dependencies) = 2
       /\ todos[i].dependencies[1] = todos[i].dependencies[2]
       /\ todos[i].dependencies[1] # todos[i].id
       /\ todos[i].dependencies[1] \in NodeIds(todos)
       /\ InDegreeOf(todos)[todos[i].dependencies[1]] = 2
       /\ \E a, b \in DOMAIN run.dequeued :
            /\ a < b
            /\ run.dequeued[a] = todos[i].id
            /\ run.dequeued[b] = todos[i].dependencies[1]

(***************************************************************************)
(* Specification of lists whose todos may share an id                      *)
(***************************************************************************)
\* TodoList::new() and TodoValidator::new()
InitDup ==
  /\ todos = <<>>
  /\ metadata = DefaultMetadata("T0")
  /\ config = DefaultConfig
  /\ op = "new"
  /\ result = None
  /\ before = [todos |-> <<>>, metadata |-> metadata, after_update |-> FALSE]
  /\ gates = <<>>
  /\ observed = None
  /\ run = None

\* the dependencies vectors of these lists; no task has id 3 while the
\* list has fewer than three todos
DupVectors == {<<>>, <<1>>, <<2>>, <<3>>, <<1, 2>>, <<2, 2>>, <<3, 1>>, <<2, 3>>}

\* add_todo of a todo with a fresh id or with the id of the first todo
AddDupTodo ==
  /\ Len(todos) < MaxNodes
  /\ \E id \in {1, Len(todos) + 1}, deps \in DupVectors :
       add_todo(GraphTodo(id, deps), {"T0"})

NextDup ==
  \/ AddDupTodo
  \/ ValidateDependencies
  \/ ValidateTodoList

SpecDup == InitDup /\ [][NextDup]_vars

CycleSuggestion == <<"Remove circular dependencies to enable proper task ordering">>

\* C28: has_cycles, the circular-dependency suggestion and the dependency
\* term of the quality score follow validate_dependencies whatever
\* require_dependency_graph and prevent_circular_dependencies are; with one
\* of the two off, a list with a dependency cycle whose validation raises no
\* other Error is returned valid, with has_cycles and with the suggestion.
C28_CycleReporting ==
  op = "validate_todo_list"
    => LET dm     == result.metrics.dependency_metrics
           failed == ~DependenciesOk(todos)
           clean  == [result.metrics EXCEPT !.dependency_metrics.has_cycles = FALSE]
           score  == calculate_quality_score(config, result.metrics)
       IN /\ dm.has_cycles = failed
          /\ (\E i \in DOMAIN result.suggestions : result.suggestions[i] = CycleSuggestion)
               <=> failed
          /\ todos # <<>>
               => IF failed
                  THEN F32Lt(score, calculate_quality_score(config, clean))
                  ELSE score = calculate_quality_score(config, clean)
          /\ /\ ~(config.require_dependency_graph /\ config.prevent_circular_dependencies)
             /\ failed
             /\ \A i \in DOMAIN result.issues :
                  result.issues[i].severity = "Error"
                    => result.issues[i].message[1] = "Circular dependency detected: {}"
             => /\ result.is_valid
                /\ dm.has_cycles
                /\ \E i \in DOMAIN result.suggestions : result.suggestions[i] = CycleSuggestion

\* two tasks that depend on each other were validated with the dependency
\* graph required and the cycle check off: valid, has_cycles, suggestion
C28_Witness ==
  /\ op = "validate_todo_list"
  /\ config.require_dependency_graph /\ ~config.prevent_circular_dependencies
  /\ Len(todos) = 2
  /\ todos[1].dependencies = <<2>> /\ todos[2].dependencies = <<1>>
  /\ result.is_valid
  /\ result.metrics.dependency_metrics.has_cycles
  /\ \E i \in DOMAIN result.suggestions : result.suggestions[i] = CycleSuggestion

\* the list without the entries of its dependencies vectors that name no task
WithoutDangling(ts) ==
  [i \in DOMAIN ts |->
     [ts[i] EXCEPT !.dependencies = SelectSeq(@, LAMBDA d : d \in NodeIds(ts))]]

\* every entry of every dependencies vector names no task of the list
OnlyDangling(ts) == \A i \in DOMAIN ts : Range(ts[i].dependencies) \cap NodeIds(ts) = {}

\* what validate_dependencies can return on the list
ResultsOf(ts) ==
  UNION {{validate_dependencies(ts, qorder, start) : start \in StartChoices(Kahn(ts, qorder))} :
           qorder \in QueueOrders(ts)}

\* the entries naming no task change nothing in the result of
\* validate_dependencies; a dependency naming no task has depth 0 and a task
\* all of whose dependencies name no task has depth 1
DanglingIgnored ==
  /\ op = "validate_dependencies" => result \in ResultsOf(WithoutDangling(todos))
  /\ op = "validate_todo_list"
       => /\ \A i \in DOMAIN todos :
               \A d \in Range(todos[i].dependencies) \ NodeIds(todos) :
                 calculate_todo_depth(d, todos, << >>).depth = 0
          /\ \A i \in DOMAIN todos :
               /\ todos[i].dependencies # <<>>
               /\ Range(todos[i].dependencies) \cap NodeIds(todos) = {}
               /\ FindTodo(todos, todos[i].id) = Some(i)
               => calculate_todo_depth(todos[i].id, todos, << >>).depth = 1
          /\ /\ todos # <<>>
             /\ OnlyDangling(todos)
             /\ ~result.metrics.dependency_metrics.has_cycles
             => result.metrics.dependency_metrics.max_depth = 1

BreakdownContents ==
  {ComplexityContent(w, t, 0) : w \in {0, 2, 7, 9}, t \in 0..1}

\* TodoList::new() and TodoValidator::with_config(..)
InitBreakdown ==
  /\ todos = <<>>
  /\ metadata = DefaultMetadata("T0")
  /\ config \in QualityConfigs
  /\ op = "new"
  /\ result = None
  /\ before = [todos |-> <<>>, metadata |-> metadata, after_update |-> FALSE]
  /\ gates = <<>>
  /\ observed = None
  /\ run = None

AddBreakdownTodo ==
  /\ Len(todos) < MaxNodes
  /\ \E content \in BreakdownContents :
       add_todo(QualityTodo(Len(todos) + 1, content, Some(4), <<>>), {"T0"})

NextBreakdown ==
  \/ AddBreakdownTodo
  \/ ValidateTodoList

SpecBreakdown == InitBreakdown /\ [][NextBreakdown]_vars

\* the positions of the tasks that an issue of the Complexity category names
ComplexityFlagged(ts, issues) ==
  {t \in DOMAIN ts :
     \E i \in DOMAIN issues : /\ issues[i].category = "Complexity"
                              /\ issues[i].severity = "Error"
                              /\ issues[i].todo_id = Some(ts[t].id)}

BreakdownSuggestion ==
  <<"Break down complex tasks (complexity > 8) into smaller, focused subtasks">>

\* C30: with max_complexity_per_task configured, the number of tasks with a
\* Complexity Error is total_count minus reasonable_complexity_count; with
\* None, no task gets a Complexity issue while a task counts as reasonable
\* only if its complexity_score is at most 8, so that the complexity
\* suggestion and a lowered quality score occur without any Complexity issue.
C30_ComplexityCounts ==
  op = "validate_todo_list"
    => LET m       == result.metrics
           flagged == ComplexityFlagged(todos, result.issues)
           over8   == {t \in DOMAIN todos : RefComplexity(todos[t].content) > 8}
           allfine == [m EXCEPT !.reasonable_complexity_count = m.total_count]
       IN IF config.max_complexity_per_task.some
          THEN /\ Cardinality(flagged) = m.total_count - m.reasonable_complexity_count
               /\ flagged = {t \in DOMAIN todos :
                               RefComplexity(todos[t].content) > config.max_complexity_per_task.v}
          ELSE /\ \A i \in DOMAIN result.issues : result.issues[i].category # "Complexity"
               /\ m.reasonable_complexity_count = m.total_count - Cardinality(over8)
               /\ over8 # {}
                    => /\ \E i \in DOMAIN result.suggestions :
                            result.suggestions[i] = BreakdownSuggestion
                       /\ F32Lt(calculate_quality_score(config, m),
                                calculate_quality_score(config, allfine))

\* with no maximum configured a list with a task of complexity above 8 and a
\* task below was validated: no Complexity issue, one task not reasonable,
\* the suggestion is made
C30_Witness ==
  /\ op = "validate_todo_list"
  /\ ~config.max_complexity_per_task.some
  /\ Len(todos) = 2
  /\ result.metrics.reasonable_complexity_count = 1
  /\ \A i \in DOMAIN result.issues : result.issues[i].category # "Complexity"
  /\ \E i \in DOMAIN result.suggestions : result.suggestions[i] = BreakdownSuggestion
  /\ result.is_valid

====
